---- MODULE Spec2Model ----
(***************************************************************************)
(* The LED visual-feedback engine of xiaozhi-esp32: CircularStrip (an      *)
(* N-pixel addressable ring), GpioLed (a PWM LED with the hardware fade    *)
(* unit), SingleLed (one addressable pixel) and the execution contexts     *)
(* that drive them: the caller task that                                   *)
(* invokes the public operations, the esp_timer task that runs the         *)
(* periodic callbacks, and the LEDC interrupt that reports fade ends.      *)
(***************************************************************************)
EXTENDS Integers, Sequences, FiniteSets, TLC

(***************************************************************************)
(* Bounds of the model.                                                    *)
(***************************************************************************)
\* the largest pixel count a CircularStrip is constructed with
MaxLeds == 2
\* the number of blinks a continuous blink is followed for
MaxBlinks == 3
\* the channel values 0 .. MaxLevel (and 255) a fading buffer is filled with
MaxLevel == 5
\* the number of steps counted after a FadeOut install
MaxFadeTicks == 9
\* the number of steps counted after a Breathe install
MaxBreatheTicks == 21
\* the largest pixel count of a scrolling strip, and the steps counted
MaxScrollLeds == 6
MaxScrollTicks == 7

(***************************************************************************)
(* Program constants.                                                      *)
(***************************************************************************)
\* circular_strip.h
DEFAULT_BRIGHTNESS == 32
LOW_BRIGHTNESS == 4
\* gpio_led.cc
GPIO_DEFAULT_BRIGHTNESS == 50
GPIO_HIGH_BRIGHTNESS == 100
GPIO_LOW_BRIGHTNESS == 10
IDLE_BRIGHTNESS == 5
SPEAKING_BRIGHTNESS == 75
UPGRADING_BRIGHTNESS == 25
ACTIVATING_BRIGHTNESS == 35
BLINK_INFINITE == -1
LEDC_DUTY == 8191
\* single_led.cc
SINGLE_DEFAULT_BRIGHTNESS == 4
SINGLE_HIGH_BRIGHTNESS == 16
SINGLE_LOW_BRIGHTNESS == 2

\* The CircularStrip objects of the program (static locals of the effect
\* lambdas are shared by all of them).
Strips == {1, 2}

RGB(r, g, b) == [red |-> r, green |-> g, blue |-> b]
Black == RGB(0, 0, 0)

\* DeviceState values Application::GetDeviceState() can return; "unknown"
\* stands for every value the switch of OnStateChanged has no case for.
DeviceStates == {"starting", "wifi_configuring", "idle", "connecting",
                 "listening", "audio_testing", "speaking", "upgrading",
                 "activating", "unknown"}

\* Arguments the caller passes to the effect API.
InColors == {Black, RGB(1, 0, 0)}
InBreathe == {<<Black, RGB(1, 0, 0)>>}
InScroll == {<<Black, RGB(1, 0, 0)>>}
InLengths == 1 .. MaxLeds
InBrightness == {<<2, 1>>, <<1, 3>>}
InIntervals == {100}

Pixels(n) == 0 .. (n - 1)
Fill(n, c) == [i \in Pixels(n) |-> c]
\* the largest channel value held by a buffer of n pixels
MaxChannel(n, buf) ==
    LET vals == UNION {{buf[i].red, buf[i].green, buf[i].blue} :
                       i \in Pixels(n)}
    IN  CHOOSE m \in vals : \A v \in vals : v <= m

\* std::function<void()> strip_callback_: nullptr or one of the four lambdas
\* with the values it captured.
Cb(kind, low, high, length) ==
    [kind |-> kind, low |-> low, high |-> high, length |-> length]
NullCb == Cb("null", Black, Black, 0)
BlinkCb == Cb("blink", Black, Black, 0)
FadeOutCb == Cb("fadeout", Black, Black, 0)
BreatheCb(low, high) == Cb("breathe", low, high, 0)
ScrollCb(low, high, length) == Cb("scroll", low, high, length)

VARIABLES
    \* ---- CircularStrip, one entry per object
    max_leds_,            \* int max_leds_
    colors_,              \* std::vector<StripColor> colors_
    pixels,               \* the pixel buffer of the led_strip driver
    hw,                   \* what the LEDs display (last refresh / clear)
    led_strip_,           \* "valid" | "deleted": the led_strip handle
    mutex_,               \* "free" | "caller" | "timer": holder of mutex_
    timer_running,        \* strip_timer_ is armed
    timer_interval,       \* its period in ms
    strip_callback_,      \* the installed step
    default_brightness_,
    low_brightness_,
    \* ---- static locals of the step lambdas (one per program)
    blink_on,             \* static bool on          (Blink lambda)
    breathe_increase,     \* static bool increase    (Breathe lambda)
    breathe_color,        \* static StripColor color (Breathe lambda)
    breathe_inited,       \* the guard of the static initialisation color = low
    scroll_offset,        \* static int offset       (Scroll lambda)
    \* ---- the caller task
    cpc,                  \* where the caller is inside the current call
    call,                 \* the current (or, when idle, the last) call
    c_i,                  \* loop index of the caller's colors_ loop
    \* ---- the esp_timer task
    tpc,                  \* "idle" | "wait" | "locked" | "crashed"
    t_strip,              \* the strip whose callback is being run
    tick_cb,              \* the callable the callback invokes
    \* ---- history
    fresh,                \* no step has run since the last StartStripTask
    call_stopped,         \* the current call has stopped the timer
    call_wrote,           \* the current call has written colors_
    use_after_free,       \* a callback touched a destroyed object
    heap_overrun,         \* colors_ was written outside its bounds
    tick_cap,             \* how many steps after an install are counted
    ticks,                \* steps run since the last StartStripTask
    fade_m,               \* largest channel of colors_ at the FadeOut install
    repeat,               \* the call repeats the previous OnStateChanged
    first,                \* the call and the frame of the latest first step
                          \* after an OnStateChanged (both kept where no
                          \* steps are counted, tick_cap = 0)
    \* ---- GpioLed
    gpio_mutex_,          \* "free" | "caller" | "timer" | "isr"
    gpio_duty_,           \* uint32_t duty_
    gpio_blink_counter_,  \* int blink_counter_
    gpio_blink_interval_ms_,
    gpio_fade_up_,        \* bool fade_up_
    gpio_timer_running,   \* blink_timer_ is armed
    gpio_timer_interval,  \* its period in ms
    hw_duty,              \* the duty the LEDC channel outputs
    fade_active,          \* a hardware fade ramp is in progress
    fade_target,          \* the duty it ramps to
    \* ---- the contexts that run GpioLed code
    gpc,                  \* the caller task inside a GpioLed operation
    gcall,                \* the current (or last) GpioLed operation
    gtpc,                 \* the esp_timer task inside the blink callback
    isr_pc,               \* the LEDC interrupt inside FadeCallback
    isr_preempted,        \* the task the interrupt preempted on its core
    \* ---- SingleLed
    single_mutex_,        \* "free" | "caller" | "timer"
    single_rgb_,          \* uint8_t r_, g_, b_
    single_blink_counter_,       \* int blink_counter_
    single_blink_interval_ms_,
    single_timer_running, \* blink_timer_ is armed
    single_timer_interval,       \* its period in ms
    single_hw,            \* what the LED displays
    \* ---- the contexts that run SingleLed code
    spc,                  \* the caller task inside a SingleLed operation
    scall,                \* the current (or last) SingleLed operation
    stpc                  \* the esp_timer task inside the blink callback

stripVars == <<max_leds_, colors_, pixels, hw, led_strip_, mutex_,
               timer_running, timer_interval, strip_callback_,
               default_brightness_, low_brightness_>>
staticVars == <<blink_on, breathe_increase, breathe_color, breathe_inited,
                scroll_offset>>
callerVars == <<cpc, call, c_i>>
timerVars == <<tpc, t_strip, tick_cb>>
histVars == <<fresh, call_stopped, call_wrote, use_after_free,
              heap_overrun>>
gpioVars == <<gpio_mutex_, gpio_duty_, gpio_blink_counter_,
              gpio_blink_interval_ms_, gpio_fade_up_, gpio_timer_running,
              gpio_timer_interval, hw_duty, fade_active, fade_target,
              gpc, gcall, gtpc, isr_pc, isr_preempted>>
singleVars == <<single_mutex_, single_rgb_, single_blink_counter_,
                single_blink_interval_ms_, single_timer_running,
                single_timer_interval, single_hw, spc, scall, stpc>>
\* what the actions of a CircularStrip leave alone, those of a GpioLed, and
\* those of a SingleLed
countVars == <<tick_cap, ticks, fade_m, repeat, first>>
nonStripVars == <<gpioVars, singleVars>>
nonGpioVars == <<stripVars, staticVars, callerVars, timerVars, histVars,
                 countVars, singleVars>>
nonSingleVars == <<stripVars, staticVars, callerVars, timerVars, histVars,
                   countVars, gpioVars>>
vars == <<stripVars, staticVars, callerVars, timerVars, histVars, countVars,
          gpioVars, singleVars>>

(***************************************************************************)
(* The animation steps, as functions of the state they read and write.     *)
(* st = [colors, pixels, hw, running, on, increase, color, inited, offset] *)
(***************************************************************************)
EffectState(s) ==
    [colors   |-> colors_[s],
     pixels   |-> pixels[s],
     hw       |-> hw[s],
     running  |-> timer_running[s],
     on       |-> blink_on,
     increase |-> breathe_increase,
     color    |-> breathe_color,
     inited   |-> breathe_inited,
     offset   |-> scroll_offset]

\* The Blink lambda: shows colors_ when on, clears when off, flips on.
BlinkStep(n, st) ==
    IF st.on
    THEN [st EXCEPT !.pixels = st.colors, !.hw = st.colors, !.on = FALSE]
    ELSE [st EXCEPT !.pixels = Fill(n, Black), !.hw = Fill(n, Black),
                    !.on = TRUE]

\* A step that divides by four.
Half_Quarter(c) == RGB(c.red \div 4, c.green \div 4, c.blue \div 4)

\* A halving that rounds up.
Half_RoundUp(c) ==
    RGB((c.red + 1) \div 2, (c.green + 1) \div 2, (c.blue + 1) \div 2)

Half(c) == RGB(c.red \div 2, c.green \div 2, c.blue \div 2)

\* A FadeOut step that never stops its timer.
FadeOutStep_NoStop(n, st) ==
    LET halved == [i \in Pixels(n) |-> Half(st.colors[i])]
    IN  [st EXCEPT !.colors = halved, !.pixels = halved, !.hw = halved]

\* The FadeOut lambda: halves every channel; clears and stops when all are 0.
FadeOutStep(n, st) ==
    LET halved == [i \in Pixels(n) |-> Half(st.colors[i])]
        all_off == \A i \in Pixels(n) : halved[i] = Black
    IN  IF all_off
        THEN [st EXCEPT !.colors = halved, !.pixels = Fill(n, Black),
                        !.hw = Fill(n, Black), !.running = FALSE]
        ELSE [st EXCEPT !.colors = halved, !.pixels = halved, !.hw = halved]

Up(v, bound) == IF v < bound THEN v + 1 ELSE v
Down(v, bound) == IF v > bound THEN v - 1 ELSE v

\* The Breathe lambda: color is initialised to low by the first execution
\* of the lambda body in the program, and never again.
BreatheStep(n, low, high, st) ==
    LET c0 == IF st.inited THEN st.color ELSE low
        up == RGB(Up(c0.red, high.red), Up(c0.green, high.green),
                  Up(c0.blue, high.blue))
        down == RGB(Down(c0.red, low.red), Down(c0.green, low.green),
                    Down(c0.blue, low.blue))
        c1 == IF st.increase THEN up ELSE down
        inc1 == IF st.increase THEN ~(up = high) ELSE (down = low)
    IN  [st EXCEPT !.color = c1, !.increase = inc1, !.inited = TRUE,
                   !.pixels = Fill(n, c1), !.hw = Fill(n, c1)]

\* A window that does not wrap around the end of the strip.
ScrollWindow_NoWrap(n, offset, length) ==
    {offset + j : j \in 0 .. (length - 1)}

\* The Scroll lambda: a window of length pixels starting at offset.
ScrollWindow(n, offset, length) ==
    {(offset + j) % n : j \in 0 .. (length - 1)}

ScrollStep(n, low, high, length, st) ==
    LET painted == [i \in Pixels(n) |->
                      IF i \in ScrollWindow(n, st.offset, length)
                      THEN high ELSE low]
    IN  [st EXCEPT !.colors = painted, !.pixels = painted, !.hw = painted,
                   !.offset = (st.offset + 1) % n]

\* strip_callback_(): the installed lambda applied to the state.
RunStep(cb, n, st) ==
    CASE cb.kind = "blink"   -> BlinkStep(n, st)
      [] cb.kind = "fadeout" -> FadeOutStep(n, st)
      [] cb.kind = "breathe" -> BreatheStep(n, cb.low, cb.high, st)
      [] cb.kind = "scroll"  -> ScrollStep(n, cb.low, cb.high, cb.length, st)
      [] OTHER               -> st

(***************************************************************************)
(* The caller task.  call is the innermost mutator being executed;         *)
(* call.via tells whether it was reached directly, through OnStateChanged  *)
(* or through SetBrightness, and call.state the DeviceState read.          *)
(***************************************************************************)
MkCall(op, s, color, low, high, length, index, interval) ==
    [op |-> op, via |-> "direct", state |-> "none", strip |-> s,
     color |-> color, low |-> low, high |-> high, length |-> length,
     index |-> index, interval |-> interval]

NoCall == MkCall("none", 1, Black, Black, Black, 0, 0, 0)

\* An entry table that clears the strip when no mutator is called.
EntryPc_NoneClears(op) ==
    CASE op = "Blink"          -> "Blink_fill"
      [] op = "Scroll"         -> "Scroll_fill"
      [] op = "FadeOut"        -> "StartStripTask_lock"
      [] op = "Breathe"        -> "StartStripTask_lock"
      [] op = "SetAllColor"    -> "SetAllColor_lock"
      [] op = "SetSingleColor" -> "SetSingleColor_lock"
      [] OTHER                 -> "SetAllColor_lock"

\* The first statement of each mutator.
EntryPc(op) ==
    CASE op = "Blink"          -> "Blink_fill"
      [] op = "Scroll"         -> "Scroll_fill"
      [] op = "FadeOut"        -> "StartStripTask_lock"
      [] op = "Breathe"        -> "StartStripTask_lock"
      [] op = "SetAllColor"    -> "SetAllColor_lock"
      [] op = "SetSingleColor" -> "SetSingleColor_lock"
      [] OTHER                 -> "idle"

\* The lambda a mutator hands to StartStripTask.
CbOf(c) ==
    CASE c.op = "Blink"   -> BlinkCb
      [] c.op = "FadeOut" -> FadeOutCb
      [] c.op = "Breathe" -> BreatheCb(c.low, c.high)
      [] c.op = "Scroll"  -> ScrollCb(c.low, c.high, c.length)
      [] OTHER            -> NullCb

\* A public operation is entered: the caller is idle and the object alive.
Begin(c) ==
    /\ cpc = "idle"
    /\ led_strip_[c.strip] = "valid"
    /\ cpc' = EntryPc(c.op)
    /\ call' = c
    /\ c_i' = 0
    /\ call_stopped' = FALSE
    /\ call_wrote' = FALSE
    /\ repeat' = (tick_cap = 0 /\ c.via = "OnStateChanged" /\ c = call)
    /\ UNCHANGED <<tick_cap, ticks, fade_m, first>>
    /\ UNCHANGED nonStripVars

CallSetAllColor(s, Colors) ==
    \E color \in Colors :
        /\ Begin(MkCall("SetAllColor", s, color, Black, Black, 0, 0, 0))
        /\ UNCHANGED <<stripVars, staticVars, timerVars, fresh, use_after_free,
                       heap_overrun>>

CallSetSingleColor(s, Colors, Indices) ==
    \E color \in Colors, index \in Indices :
        /\ Begin(MkCall("SetSingleColor", s, color, Black, Black, 0, index, 0))
        /\ UNCHANGED <<stripVars, staticVars, timerVars, fresh, use_after_free,
                       heap_overrun>>

CallBlink(s, Colors) ==
    \E color \in Colors, interval \in InIntervals :
        /\ Begin(MkCall("Blink", s, color, Black, Black, 0, 0, interval))
        /\ UNCHANGED <<stripVars, staticVars, timerVars, fresh, use_after_free,
                       heap_overrun>>

CallFadeOut(s) ==
    \E interval \in InIntervals :
        /\ Begin(MkCall("FadeOut", s, Black, Black, Black, 0, 0, interval))
        /\ UNCHANGED <<stripVars, staticVars, timerVars, fresh, use_after_free,
                       heap_overrun>>

CallBreathe(s, Bounds) ==
    \E lh \in Bounds, interval \in InIntervals :
        /\ Begin(MkCall("Breathe", s, Black, lh[1], lh[2], 0, 0, interval))
        /\ UNCHANGED <<stripVars, staticVars, timerVars, fresh, use_after_free,
                       heap_overrun>>

CallScroll(s, Bounds, Lengths) ==
    \E lh \in Bounds, length \in Lengths, interval \in InIntervals :
        /\ Begin(MkCall("Scroll", s, Black, lh[1], lh[2], length, 0, interval))
        /\ UNCHANGED <<stripVars, staticVars, timerVars, fresh, use_after_free,
                       heap_overrun>>

\* The switch of OnStateChanged: the mutator call each DeviceState makes,
\* with d = default_brightness_ and l = low_brightness_.
StateBinding(s, state, d, l) ==
    CASE state = "starting" ->
           MkCall("Scroll", s, Black, Black, RGB(l, l, d), 3, 0, 100)
      [] state = "wifi_configuring" ->
           MkCall("Blink", s, RGB(l, l, d), Black, Black, 0, 0, 500)
      [] state = "idle" ->
           MkCall("FadeOut", s, Black, Black, Black, 0, 0, 50)
      [] state = "connecting" ->
           MkCall("SetAllColor", s, RGB(l, l, d), Black, Black, 0, 0, 0)
      [] state \in {"listening", "audio_testing"} ->
           MkCall("SetAllColor", s, RGB(d, l, l), Black, Black, 0, 0, 0)
      [] state = "speaking" ->
           MkCall("SetAllColor", s, RGB(l, d, l), Black, Black, 0, 0, 0)
      [] state = "upgrading" ->
           MkCall("Blink", s, RGB(l, d, l), Black, Black, 0, 0, 100)
      [] state = "activating" ->
           MkCall("Blink", s, RGB(l, d, l), Black, Black, 0, 0, 500)
      [] OTHER ->
           MkCall("none", s, Black, Black, Black, 0, 0, 0)

CallOnStateChanged(s) ==
    \E state \in DeviceStates :
        /\ Begin([StateBinding(s, state, default_brightness_[s],
                               low_brightness_[s])
                    EXCEPT !.via = "OnStateChanged", !.state = state])
        /\ UNCHANGED <<stripVars, staticVars, timerVars, fresh, use_after_free,
                       heap_overrun>>

\* A SetBrightness that re-applies the state with the levels it replaced.
CallSetBrightness_Stale(s) ==
    \E b \in InBrightness, state \in DeviceStates :
        /\ default_brightness_' = [default_brightness_ EXCEPT ![s] = b[1]]
        /\ low_brightness_' = [low_brightness_ EXCEPT ![s] = b[2]]
        /\ Begin([StateBinding(s, state, default_brightness_[s],
                               low_brightness_[s])
                    EXCEPT !.via = "SetBrightness", !.state = state])
        /\ UNCHANGED <<max_leds_, colors_, pixels, hw, led_strip_, mutex_,
                       timer_running, timer_interval, strip_callback_,
                       staticVars, timerVars, fresh, use_after_free,
                       heap_overrun>>

\* SetBrightness up to the first statement of the mutator its
\* OnStateChanged calls: both levels are stored without taking mutex_.
CallSetBrightness(s) ==
    \E b \in InBrightness, state \in DeviceStates :
        /\ default_brightness_' = [default_brightness_ EXCEPT ![s] = b[1]]
        /\ low_brightness_' = [low_brightness_ EXCEPT ![s] = b[2]]
        /\ Begin([StateBinding(s, state, b[1], b[2])
                    EXCEPT !.via = "SetBrightness", !.state = state])
        /\ UNCHANGED <<max_leds_, colors_, pixels, hw, led_strip_, mutex_,
                       timer_running, timer_interval, strip_callback_,
                       staticVars, timerVars, fresh, use_after_free,
                       heap_overrun>>

(***************************************************************************)
(* The bodies of the mutators, statement by statement where another        *)
(* context can interleave: the colors_ loops of Blink and Scroll run       *)
(* before StartStripTask takes mutex_; everything after a lock is one step *)
(* with respect to the timer callback, which needs the same mutex_.        *)
(***************************************************************************)
\* Blink, the loop colors_[i] = color (no lock held), then StartStripTask.
BlinkFill ==
    /\ cpc = "Blink_fill"
    /\ LET s == call.strip IN
        /\ colors_' = [colors_ EXCEPT ![s][c_i] = call.color]
        /\ c_i' = c_i + 1
        /\ cpc' = IF c_i + 1 < max_leds_[s] THEN "Blink_fill"
                  ELSE "StartStripTask_lock"
    /\ call_wrote' = TRUE
    /\ UNCHANGED <<max_leds_, pixels, hw, led_strip_, mutex_, timer_running,
                   timer_interval, strip_callback_, default_brightness_,
                   low_brightness_, staticVars, call, timerVars, fresh,
                   call_stopped, use_after_free, heap_overrun>>
    /\ UNCHANGED countVars
    /\ UNCHANGED nonStripVars

\* Scroll, the loop colors_[i] = low (no lock held), then StartStripTask.
ScrollFill ==
    /\ cpc = "Scroll_fill"
    /\ LET s == call.strip IN
        /\ colors_' = [colors_ EXCEPT ![s][c_i] = call.low]
        /\ c_i' = c_i + 1
        /\ cpc' = IF c_i + 1 < max_leds_[s] THEN "Scroll_fill"
                  ELSE "StartStripTask_lock"
    /\ call_wrote' = TRUE
    /\ UNCHANGED <<max_leds_, pixels, hw, led_strip_, mutex_, timer_running,
                   timer_interval, strip_callback_, default_brightness_,
                   low_brightness_, staticVars, call, timerVars, fresh,
                   call_stopped, use_after_free, heap_overrun>>
    /\ UNCHANGED countVars
    /\ UNCHANGED nonStripVars

\* A lock_guard that does not wait for the mutex to be free.
CallerLock_NoWait(at, next) ==
    /\ cpc = at
    /\ mutex_' = [mutex_ EXCEPT ![call.strip] = "caller"]
    /\ cpc' = next
    /\ UNCHANGED <<max_leds_, colors_, pixels, hw, led_strip_, timer_running,
                   timer_interval, strip_callback_, default_brightness_,
                   low_brightness_, staticVars, call, c_i, timerVars,
                   histVars>>
    /\ UNCHANGED countVars
    /\ UNCHANGED nonStripVars

\* std::lock_guard<std::mutex> lock(mutex_) in the caller: blocks while held.
CallerLock(at, next) ==
    /\ cpc = at
    /\ mutex_[call.strip] = "free"
    /\ mutex_' = [mutex_ EXCEPT ![call.strip] = "caller"]
    /\ cpc' = next
    /\ UNCHANGED <<max_leds_, colors_, pixels, hw, led_strip_, timer_running,
                   timer_interval, strip_callback_, default_brightness_,
                   low_brightness_, staticVars, call, c_i, timerVars,
                   histVars>>
    /\ UNCHANGED countVars
    /\ UNCHANGED nonStripVars

\* An esp_timer as the three LED classes use it: armed or not, and the
\* period of its schedule.
Timer(running, interval) == [running |-> running, interval |-> interval]

\* An esp_timer_stop that leaves an armed timer armed.
EspTimerStop_Nop(t) == t

\* esp_timer_stop: the timer is no longer armed.
EspTimerStop(t) == [t EXCEPT !.running = FALSE]

\* esp_timer_start_periodic: a stopped timer is armed with the period; on
\* an armed timer the call fails and the schedule stays what it was.
EspTimerStartPeriodic(t, interval) ==
    IF t.running THEN t ELSE Timer(TRUE, interval)

StartStripTaskLock == CallerLock("StartStripTask_lock", "StartStripTask_body")

\* StartStripTask under the lock: stop, replace the step, start, unlock.
StartStripTaskBody ==
    /\ cpc = "StartStripTask_body"
    /\ LET s == call.strip IN
        /\ strip_callback_' = [strip_callback_ EXCEPT ![s] = CbOf(call)]
        /\ LET t == EspTimerStartPeriodic(
                        EspTimerStop(Timer(timer_running[s],
                                           timer_interval[s])),
                        call.interval) IN
            /\ timer_running' = [timer_running EXCEPT ![s] = t.running]
            /\ timer_interval' = [timer_interval EXCEPT ![s] = t.interval]
        /\ mutex_' = [mutex_ EXCEPT ![s] = "free"]
        /\ fresh' = [fresh EXCEPT ![s] = TRUE]
        /\ fade_m' = IF tick_cap > 0 /\ call.op = "FadeOut"
                     THEN MaxChannel(max_leds_[s], colors_[s]) ELSE 0
    /\ ticks' = 0
    /\ call_stopped' = TRUE
    /\ cpc' = "idle"
    /\ UNCHANGED <<max_leds_, colors_, pixels, hw, led_strip_,
                   default_brightness_, low_brightness_, staticVars, call,
                   c_i, timerVars, call_wrote, use_after_free, heap_overrun,
                   tick_cap, repeat, first>>
    /\ UNCHANGED nonStripVars

SetAllColorLock == CallerLock("SetAllColor_lock", "SetAllColor_body")

\* SetAllColor under the lock: stop, write every pixel, refresh, unlock.
SetAllColorBody ==
    /\ cpc = "SetAllColor_body"
    /\ LET s == call.strip
           all == Fill(max_leds_[s], call.color)
       IN
        /\ timer_running' = [timer_running EXCEPT ![s] = FALSE]
        /\ colors_' = [colors_ EXCEPT ![s] = all]
        /\ pixels' = [pixels EXCEPT ![s] = all]
        /\ hw' = [hw EXCEPT ![s] = all]
        /\ mutex_' = [mutex_ EXCEPT ![s] = "free"]
    /\ call_stopped' = TRUE
    /\ call_wrote' = TRUE
    /\ cpc' = "idle"
    /\ UNCHANGED <<max_leds_, led_strip_, timer_interval, strip_callback_,
                   default_brightness_, low_brightness_, staticVars, call,
                   c_i, timerVars, fresh, use_after_free, heap_overrun>>
    /\ UNCHANGED countVars
    /\ UNCHANGED nonStripVars

SetSingleColorLock == CallerLock("SetSingleColor_lock", "SetSingleColor_body")

\* A SetSingleColor that rewrites the whole buffer with the colour.
SetSingleColorBody_All ==
    /\ cpc = "SetSingleColor_body"
    /\ LET s == call.strip
           all == Fill(max_leds_[s], call.color)
       IN
        /\ timer_running' = [timer_running EXCEPT ![s] = FALSE]
        /\ colors_' = [colors_ EXCEPT ![s] = all]
        /\ pixels' = [pixels EXCEPT ![s] = all]
        /\ hw' = [hw EXCEPT ![s] = all]
        /\ mutex_' = [mutex_ EXCEPT ![s] = "free"]
    /\ call_stopped' = TRUE
    /\ call_wrote' = TRUE
    /\ cpc' = "idle"
    /\ UNCHANGED <<max_leds_, led_strip_, timer_interval, strip_callback_,
                   default_brightness_, low_brightness_, staticVars, call,
                   c_i, timerVars, fresh, use_after_free, heap_overrun>>
    /\ UNCHANGED countVars
    /\ UNCHANGED nonStripVars

\* SetSingleColor under the lock: stop, colors_[index] = color (unchecked),
\* led_strip_set_pixel (the driver rejects an index >= max_leds), refresh.
SetSingleColorBody ==
    /\ cpc = "SetSingleColor_body"
    /\ LET s == call.strip
           inside == call.index < max_leds_[s]
           px == IF inside THEN [pixels[s] EXCEPT ![call.index] = call.color]
                 ELSE pixels[s]
       IN
        /\ timer_running' = [timer_running EXCEPT ![s] = FALSE]
        /\ colors_' = IF inside
                      THEN [colors_ EXCEPT ![s][call.index] = call.color]
                      ELSE colors_
        /\ heap_overrun' = (heap_overrun \/ ~inside)
        /\ pixels' = [pixels EXCEPT ![s] = px]
        /\ hw' = [hw EXCEPT ![s] = px]
        /\ mutex_' = [mutex_ EXCEPT ![s] = "free"]
    /\ call_stopped' = TRUE
    /\ call_wrote' = TRUE
    /\ cpc' = "idle"
    /\ UNCHANGED <<max_leds_, led_strip_, timer_interval, strip_callback_,
                   default_brightness_, low_brightness_, staticVars, call,
                   c_i, timerVars, fresh, use_after_free>>
    /\ UNCHANGED countVars
    /\ UNCHANGED nonStripVars

\* ~CircularStrip: esp_timer_stop, led_strip_del; no lock, no wait for a
\* callback in flight.  The object's storage is released afterwards.
Destroy(s) ==
    /\ cpc = "idle"
    /\ led_strip_[s] = "valid"
    /\ timer_running' = [timer_running EXCEPT ![s] = FALSE]
    /\ led_strip_' = [led_strip_ EXCEPT ![s] = "deleted"]
    /\ UNCHANGED <<max_leds_, colors_, pixels, hw, mutex_, timer_interval,
                   strip_callback_, default_brightness_, low_brightness_,
                   staticVars, callerVars, timerVars, histVars>>
    /\ UNCHANGED countVars
    /\ UNCHANGED nonStripVars

(***************************************************************************)
(* The esp_timer task.  esp_timer_stop does not wait for a callback that   *)
(* has been dispatched: the callback goes on to take mutex_ and to call    *)
(* whatever strip_callback_ then holds.                                    *)
(***************************************************************************)
\* The period of an armed strip_timer_ elapses: its callback is invoked.
TimerDispatch(s) ==
    /\ tpc = "idle"
    /\ timer_running[s]
    /\ tpc' = "wait"
    /\ t_strip' = s
    /\ UNCHANGED <<stripVars, staticVars, callerVars, tick_cb, histVars>>
    /\ UNCHANGED countVars
    /\ UNCHANGED nonStripVars

\* A timer callback that enters the step without waiting for mutex_.
TimerLock_NoGuard ==
    /\ tpc = "wait"
    /\ mutex_' = mutex_
    /\ tick_cb' = strip_callback_[t_strip]
    /\ tpc' = "locked"
    /\ UNCHANGED <<max_leds_, colors_, pixels, hw, led_strip_, timer_running,
                   timer_interval, strip_callback_, default_brightness_,
                   low_brightness_, staticVars, callerVars, t_strip, histVars>>
    /\ UNCHANGED countVars
    /\ UNCHANGED nonStripVars

\* The callback's lock_guard and its read of strip_callback_.  On a
\* destroyed object both touch released storage: the access either appears
\* to work or faults.
TimerLock ==
    /\ tpc = "wait"
    /\ mutex_[t_strip] = "free"
    /\ mutex_' = [mutex_ EXCEPT ![t_strip] = "timer"]
    /\ tick_cb' = strip_callback_[t_strip]
    /\ IF led_strip_[t_strip] = "deleted"
       THEN /\ use_after_free' = TRUE
            /\ tpc' \in {"locked", "crashed"}
       ELSE /\ use_after_free' = use_after_free
            /\ tpc' = "locked"
    /\ UNCHANGED <<max_leds_, colors_, pixels, hw, led_strip_, timer_running,
                   timer_interval, strip_callback_, default_brightness_,
                   low_brightness_, staticVars, callerVars, t_strip, fresh,
                   call_stopped, call_wrote, heap_overrun>>
    /\ UNCHANGED countVars
    /\ UNCHANGED nonStripVars

\* if (strip_callback_ != nullptr) strip_callback_(); then the lock_guard
\* releases mutex_.  On a deleted led_strip_ the step's driver calls touch
\* released storage: nothing reaches the LEDs, and the call may fault.
TimerRun ==
    /\ tpc = "locked"
    /\ LET s == t_strip
           r == RunStep(tick_cb, max_leds_[s], EffectState(s))
           alive == led_strip_[s] = "valid"
       IN
        /\ colors_' = [colors_ EXCEPT ![s] = r.colors]
        /\ pixels' = [pixels EXCEPT ![s] = IF alive THEN r.pixels ELSE @]
        /\ hw' = [hw EXCEPT ![s] = IF alive THEN r.hw ELSE @]
        /\ timer_running' = [timer_running EXCEPT ![s] = r.running]
        /\ blink_on' = r.on
        /\ breathe_increase' = r.increase
        /\ breathe_color' = r.color
        /\ breathe_inited' = r.inited
        /\ scroll_offset' = r.offset
        /\ mutex_' = [mutex_ EXCEPT ![s] = "free"]
        /\ fresh' = [fresh EXCEPT ![s] = @ /\ tick_cb.kind = "null"]
        /\ ticks' = IF tick_cb.kind = "null" \/ ticks >= tick_cap
                    THEN ticks ELSE ticks + 1
        /\ first' = IF /\ tick_cap = 0
                       /\ call.via = "OnStateChanged"
                       /\ fresh[s]
                       /\ tick_cb.kind # "null"
                    THEN [call |-> call, frame |-> r.hw] ELSE first
        /\ IF alive \/ tick_cb.kind = "null"
           THEN /\ use_after_free' = use_after_free
                /\ tpc' = "idle"
           ELSE /\ use_after_free' = TRUE
                /\ tpc' \in {"idle", "crashed"}
    /\ tick_cb' = NullCb
    /\ t_strip' = 1
    /\ UNCHANGED <<max_leds_, led_strip_, timer_interval, strip_callback_,
                   default_brightness_, low_brightness_, callerVars,
                   call_stopped, call_wrote, heap_overrun, tick_cap, fade_m,
                   repeat>>
    /\ UNCHANGED nonStripVars

(***************************************************************************)
(* GpioLed: a PWM LED on an LEDC channel.  Three contexts run its code:    *)
(* the caller task, the esp_timer task (OnBlinkTimer) and the LEDC         *)
(* interrupt (FadeCallback -> OnFadeEnd), which preempts whatever task is  *)
(* running on its core until the handler returns.                          *)
(***************************************************************************)
\* A task runs unless the interrupt handler is active on top of it.
CanRun(task) == ~(isr_pc # "idle" /\ isr_preempted = task)

\* SetBrightness: duty_ for a brightness argument (a uint8_t).
Duty(brightness) ==
    IF brightness = 100 THEN LEDC_DUTY ELSE (brightness * LEDC_DUTY) \div 100

\* changed: the call was a SetBrightness that gave duty_ another value.
MkGpioCall(op, times, interval) ==
    [op |-> op, via |-> "direct", state |-> "none", times |-> times,
     interval |-> interval, changed |-> FALSE]

NoGpioCall == MkGpioCall("none", 0, 0)

GpioEntryPc(op) ==
    CASE op = "TurnOn"         -> "TurnOn_lock"
      [] op = "TurnOff"        -> "TurnOff_lock"
      [] op = "StartBlinkTask" -> "StartBlinkTask_lock"
      [] op = "StartFadeTask"  -> "StartFadeTask_lock"
      [] OTHER                 -> "idle"

\* A public operation is entered (ledc_initialized_ is true once constructed).
GpioBegin(c) ==
    /\ gpc = "idle"
    /\ CanRun("caller")
    /\ gpc' = GpioEntryPc(c.op)
    /\ gcall' = c
    /\ UNCHANGED nonGpioVars

GpioSetBrightness(Percents) ==
    \E brightness \in Percents :
        /\ GpioBegin([MkGpioCall("SetBrightness", 0, 0)
                        EXCEPT !.changed = (Duty(brightness) # gpio_duty_)])
        /\ gpio_duty_' = Duty(brightness)
        /\ UNCHANGED <<gpio_mutex_, gpio_blink_counter_,
                       gpio_blink_interval_ms_, gpio_fade_up_,
                       gpio_timer_running, gpio_timer_interval, hw_duty,
                       fade_active, fade_target, gtpc, isr_pc, isr_preempted>>

GpioCallTurnOn ==
    /\ GpioBegin(MkGpioCall("TurnOn", 0, 0))
    /\ UNCHANGED <<gpio_mutex_, gpio_duty_, gpio_blink_counter_,
                   gpio_blink_interval_ms_, gpio_fade_up_,
                   gpio_timer_running, gpio_timer_interval, hw_duty,
                   fade_active, fade_target, gtpc, isr_pc, isr_preempted>>

GpioCallTurnOff ==
    /\ GpioBegin(MkGpioCall("TurnOff", 0, 0))
    /\ UNCHANGED <<gpio_mutex_, gpio_duty_, gpio_blink_counter_,
                   gpio_blink_interval_ms_, gpio_fade_up_,
                   gpio_timer_running, gpio_timer_interval, hw_duty,
                   fade_active, fade_target, gtpc, isr_pc, isr_preempted>>

\* Blink(times, interval_ms); BlinkOnce() is Blink(1, 100) and
\* StartContinuousBlink(interval_ms) is StartBlinkTask(BLINK_INFINITE, ..).
GpioCallBlink(Times) ==
    \E times \in Times, interval \in InIntervals :
        /\ GpioBegin(MkGpioCall("StartBlinkTask", times, interval))
        /\ UNCHANGED <<gpio_mutex_, gpio_duty_, gpio_blink_counter_,
                       gpio_blink_interval_ms_, gpio_fade_up_,
                       gpio_timer_running, gpio_timer_interval, hw_duty,
                       fade_active, fade_target, gtpc, isr_pc, isr_preempted>>

GpioCallStartFadeTask ==
    /\ GpioBegin(MkGpioCall("StartFadeTask", 0, 0))
    /\ UNCHANGED <<gpio_mutex_, gpio_duty_, gpio_blink_counter_,
                   gpio_blink_interval_ms_, gpio_fade_up_,
                   gpio_timer_running, gpio_timer_interval, hw_duty,
                   fade_active, fade_target, gtpc, isr_pc, isr_preempted>>

\* The switch of GpioLed::OnStateChanged: the brightness it sets (0 when it
\* sets none) and the operation it then calls.
GpioStateBinding(state, voice) ==
    CASE state = "starting" ->
           <<GPIO_DEFAULT_BRIGHTNESS, MkGpioCall("StartBlinkTask", BLINK_INFINITE, 100)>>
      [] state = "wifi_configuring" ->
           <<GPIO_DEFAULT_BRIGHTNESS, MkGpioCall("StartBlinkTask", BLINK_INFINITE, 500)>>
      [] state = "idle" ->
           <<IDLE_BRIGHTNESS, MkGpioCall("TurnOn", 0, 0)>>
      [] state = "connecting" ->
           <<GPIO_DEFAULT_BRIGHTNESS, MkGpioCall("TurnOn", 0, 0)>>
      [] state \in {"listening", "audio_testing"} ->
           <<IF voice THEN GPIO_HIGH_BRIGHTNESS ELSE GPIO_LOW_BRIGHTNESS,
             MkGpioCall("StartFadeTask", 0, 0)>>
      [] state = "speaking" ->
           <<SPEAKING_BRIGHTNESS, MkGpioCall("TurnOn", 0, 0)>>
      [] state = "upgrading" ->
           <<UPGRADING_BRIGHTNESS, MkGpioCall("StartBlinkTask", BLINK_INFINITE, 100)>>
      [] state = "activating" ->
           <<ACTIVATING_BRIGHTNESS, MkGpioCall("StartBlinkTask", BLINK_INFINITE, 500)>>
      [] OTHER ->
           <<0, MkGpioCall("none", 0, 0)>>

GpioCallOnStateChanged(States) ==
    \E state \in States, voice \in BOOLEAN :
        LET b == GpioStateBinding(state, voice) IN
        /\ GpioBegin([b[2] EXCEPT !.via = "OnStateChanged", !.state = state])
        /\ gpio_duty_' = IF b[2].op = "none" THEN gpio_duty_ ELSE Duty(b[1])
        /\ UNCHANGED <<gpio_mutex_, gpio_blink_counter_,
                       gpio_blink_interval_ms_, gpio_fade_up_,
                       gpio_timer_running, gpio_timer_interval, hw_duty,
                       fade_active, fade_target, gtpc, isr_pc, isr_preempted>>

\* std::lock_guard<std::mutex> lock(mutex_) in the caller.
GpioCallerLock(at, next) ==
    /\ gpc = at
    /\ CanRun("caller")
    /\ gpio_mutex_ = "free"
    /\ gpio_mutex_' = "caller"
    /\ gpc' = next
    /\ UNCHANGED <<gpio_duty_, gpio_blink_counter_, gpio_blink_interval_ms_,
                   gpio_fade_up_, gpio_timer_running, gpio_timer_interval,
                   hw_duty, fade_active, fade_target, gcall, gtpc, isr_pc,
                   isr_preempted>>
    /\ UNCHANGED nonGpioVars

\* ledc_fade_stop: the duty stays where the ramp was, anywhere between its
\* first step and its last.
FadeStopDuties ==
    IF fade_active THEN {hw_duty, fade_target} ELSE {hw_duty}

GpioTurnOnLock == GpioCallerLock("TurnOn_lock", "TurnOn_body")

\* A TurnOn that leaves a running ramp alone.
GpioTurnOnBody_KeepFade ==
    /\ gpc = "TurnOn_body"
    /\ CanRun("caller")
    /\ gpio_timer_running' = FALSE
    /\ hw_duty' = gpio_duty_
    /\ gpio_mutex_' = "free"
    /\ gpc' = "idle"
    /\ UNCHANGED <<gpio_duty_, gpio_blink_counter_, gpio_blink_interval_ms_,
                   gpio_fade_up_, gpio_timer_interval, fade_active,
                   fade_target, gcall, gtpc, isr_pc, isr_preempted>>
    /\ UNCHANGED nonGpioVars

\* TurnOn under the lock: stop the timer and the fade, set and update duty_.
GpioTurnOnBody ==
    /\ gpc = "TurnOn_body"
    /\ CanRun("caller")
    /\ gpio_timer_running' = FALSE
    /\ fade_active' = FALSE
    /\ hw_duty' = gpio_duty_
    /\ gpio_mutex_' = "free"
    /\ gpc' = "idle"
    /\ UNCHANGED <<gpio_duty_, gpio_blink_counter_, gpio_blink_interval_ms_,
                   gpio_fade_up_, gpio_timer_interval, fade_target, gcall,
                   gtpc, isr_pc, isr_preempted>>
    /\ UNCHANGED nonGpioVars

GpioTurnOffLock == GpioCallerLock("TurnOff_lock", "TurnOff_body")

\* TurnOff under the lock: stop the timer and the fade, set and update 0.
GpioTurnOffBody ==
    /\ gpc = "TurnOff_body"
    /\ CanRun("caller")
    /\ gpio_timer_running' = FALSE
    /\ fade_active' = FALSE
    /\ hw_duty' = 0
    /\ gpio_mutex_' = "free"
    /\ gpc' = "idle"
    /\ UNCHANGED <<gpio_duty_, gpio_blink_counter_, gpio_blink_interval_ms_,
                   gpio_fade_up_, gpio_timer_interval, fade_target, gcall,
                   gtpc, isr_pc, isr_preempted>>
    /\ UNCHANGED nonGpioVars

GpioStartBlinkTaskLock ==
    GpioCallerLock("StartBlinkTask_lock", "StartBlinkTask_body")

\* A StartBlinkTask that counts one tick for each blink.
GpioStartBlinkTaskBody_Once ==
    /\ gpc = "StartBlinkTask_body"
    /\ CanRun("caller")
    /\ fade_active' = FALSE
    /\ hw_duty' \in FadeStopDuties
    /\ gpio_blink_counter_' = gcall.times
    /\ gpio_blink_interval_ms_' = gcall.interval
    /\ gpio_timer_running' = TRUE
    /\ gpio_timer_interval' = gcall.interval
    /\ gpio_mutex_' = "free"
    /\ gpc' = "idle"
    /\ UNCHANGED <<gpio_duty_, gpio_fade_up_, fade_target, gcall, gtpc,
                   isr_pc, isr_preempted>>
    /\ UNCHANGED nonGpioVars

\* StartBlinkTask under the lock: stop the timer and the fade, set the
\* counter to times * 2, start the periodic timer.
GpioStartBlinkTaskBody ==
    /\ gpc = "StartBlinkTask_body"
    /\ CanRun("caller")
    /\ fade_active' = FALSE
    /\ hw_duty' \in FadeStopDuties
    /\ gpio_blink_counter_' = gcall.times * 2
    /\ gpio_blink_interval_ms_' = gcall.interval
    /\ LET t == EspTimerStartPeriodic(
                    EspTimerStop(Timer(gpio_timer_running,
                                       gpio_timer_interval)),
                    gcall.interval) IN
        /\ gpio_timer_running' = t.running
        /\ gpio_timer_interval' = t.interval
    /\ gpio_mutex_' = "free"
    /\ gpc' = "idle"
    /\ UNCHANGED <<gpio_duty_, gpio_fade_up_, fade_target, gcall, gtpc,
                   isr_pc, isr_preempted>>
    /\ UNCHANGED nonGpioVars

GpioStartFadeTaskLock ==
    GpioCallerLock("StartFadeTask_lock", "StartFadeTask_body")

\* StartFadeTask under the lock: stop the timer and the fade, fade_up_ =
\* true, start a ramp to LEDC_DUTY without waiting for it.
GpioStartFadeTaskBody ==
    /\ gpc = "StartFadeTask_body"
    /\ CanRun("caller")
    /\ gpio_timer_running' = FALSE
    /\ hw_duty' \in FadeStopDuties
    /\ gpio_fade_up_' = TRUE
    /\ fade_target' = LEDC_DUTY
    /\ fade_active' = TRUE
    /\ gpio_mutex_' = "free"
    /\ gpc' = "idle"
    /\ UNCHANGED <<gpio_duty_, gpio_blink_counter_, gpio_blink_interval_ms_,
                   gpio_timer_interval, gcall, gtpc, isr_pc, isr_preempted>>
    /\ UNCHANGED nonGpioVars

\* The period of the armed blink_timer_ elapses: its callback is invoked.
GpioTimerDispatch ==
    /\ gtpc = "idle"
    /\ CanRun("timer")
    /\ gpio_timer_running
    /\ gpio_blink_counter_ > -(2 * MaxBlinks)
    /\ gtpc' = "wait"
    /\ UNCHANGED <<gpio_mutex_, gpio_duty_, gpio_blink_counter_,
                   gpio_blink_interval_ms_, gpio_fade_up_,
                   gpio_timer_running, gpio_timer_interval, hw_duty,
                   fade_active, fade_target, gpc, gcall, isr_pc,
                   isr_preempted>>
    /\ UNCHANGED nonGpioVars

\* OnBlinkTimer, its lock_guard.
GpioTimerLock ==
    /\ gtpc = "wait"
    /\ CanRun("timer")
    /\ gpio_mutex_ = "free"
    /\ gpio_mutex_' = "timer"
    /\ gtpc' = "locked"
    /\ UNCHANGED <<gpio_duty_, gpio_blink_counter_, gpio_blink_interval_ms_,
                   gpio_fade_up_, gpio_timer_running, gpio_timer_interval,
                   hw_duty, fade_active, fade_target, gpc, gcall, isr_pc,
                   isr_preempted>>
    /\ UNCHANGED nonGpioVars

\* An OnBlinkTimer that stops the timer on every off phase.
OnBlinkTimer_StopsWhenOff ==
    /\ gtpc = "locked"
    /\ CanRun("timer")
    /\ LET counter == gpio_blink_counter_ - 1 IN
        /\ gpio_blink_counter_' = counter
        /\ hw_duty' = IF counter % 2 = 1 THEN gpio_duty_ ELSE 0
        /\ gpio_timer_running' =
               IF counter % 2 = 0 THEN FALSE ELSE gpio_timer_running
    /\ gpio_mutex_' = "free"
    /\ gtpc' = "idle"
    /\ UNCHANGED <<gpio_duty_, gpio_blink_interval_ms_, gpio_fade_up_,
                   gpio_timer_interval, fade_active, fade_target, gpc, gcall,
                   isr_pc, isr_preempted>>
    /\ UNCHANGED nonGpioVars

\* OnBlinkTimer under the lock: decrement, duty_ on an odd counter, 0 on an
\* even one, stop the timer at 0.
OnBlinkTimer ==
    /\ gtpc = "locked"
    /\ CanRun("timer")
    /\ LET counter == gpio_blink_counter_ - 1 IN
        /\ gpio_blink_counter_' = counter
        /\ hw_duty' = IF counter % 2 = 1 THEN gpio_duty_ ELSE 0
        /\ gpio_timer_running' =
               IF counter % 2 = 0 /\ counter = 0 THEN FALSE
               ELSE gpio_timer_running
    /\ gpio_mutex_' = "free"
    /\ gtpc' = "idle"
    /\ UNCHANGED <<gpio_duty_, gpio_blink_interval_ms_, gpio_fade_up_,
                   gpio_timer_interval, fade_active, fade_target, gpc, gcall,
                   isr_pc, isr_preempted>>
    /\ UNCHANGED nonGpioVars

\* The ramp reaches its target: the LEDC interrupt runs FadeCallback with
\* LEDC_FADE_END_EVT on top of whatever task its core was running.
FadeCallback ==
    /\ isr_pc = "idle"
    /\ fade_active
    /\ fade_active' = FALSE
    /\ hw_duty' = fade_target
    /\ isr_pc' = "wait"
    /\ isr_preempted' \in {"none", "caller", "timer"}
    /\ UNCHANGED <<gpio_mutex_, gpio_duty_, gpio_blink_counter_,
                   gpio_blink_interval_ms_, gpio_fade_up_,
                   gpio_timer_running, gpio_timer_interval, fade_target,
                   gpc, gcall, gtpc>>
    /\ UNCHANGED nonGpioVars

\* OnFadeEnd, its lock_guard: a blocking lock taken in the interrupt handler.
OnFadeEndLock ==
    /\ isr_pc = "wait"
    /\ gpio_mutex_ = "free"
    /\ gpio_mutex_' = "isr"
    /\ isr_pc' = "locked"
    /\ UNCHANGED <<gpio_duty_, gpio_blink_counter_, gpio_blink_interval_ms_,
                   gpio_fade_up_, gpio_timer_running, gpio_timer_interval,
                   hw_duty, fade_active, fade_target, gpc, gcall, gtpc,
                   isr_preempted>>
    /\ UNCHANGED nonGpioVars

\* A fade-end handler that restarts the ramp it was told has ended.
OnFadeEnd_NoFlip ==
    /\ isr_pc = "locked"
    /\ gpio_fade_up_' = gpio_fade_up_
    /\ fade_target' = fade_target
    /\ fade_active' = TRUE
    /\ gpio_mutex_' = "free"
    /\ isr_pc' = "idle"
    /\ isr_preempted' = "none"
    /\ UNCHANGED <<gpio_duty_, gpio_blink_counter_, gpio_blink_interval_ms_,
                   gpio_timer_running, gpio_timer_interval, hw_duty, gpc,
                   gcall, gtpc>>
    /\ UNCHANGED nonGpioVars

\* OnFadeEnd under the lock: flip fade_up_, start the next ramp; the handler
\* returns and the preempted task resumes.
OnFadeEnd ==
    /\ isr_pc = "locked"
    /\ gpio_fade_up_' = ~gpio_fade_up_
    /\ fade_target' = IF ~gpio_fade_up_ THEN LEDC_DUTY ELSE 0
    /\ fade_active' = TRUE
    /\ gpio_mutex_' = "free"
    /\ isr_pc' = "idle"
    /\ isr_preempted' = "none"
    /\ UNCHANGED <<gpio_duty_, gpio_blink_counter_, gpio_blink_interval_ms_,
                   gpio_timer_running, gpio_timer_interval, hw_duty, gpc,
                   gcall, gtpc>>
    /\ UNCHANGED nonGpioVars

\* The state after the constructor: channel duty 0, timer created, no fade.
InitGpio ==
    /\ gpio_mutex_ = "free"
    /\ gpio_duty_ = 0
    /\ gpio_blink_counter_ = 0
    /\ gpio_blink_interval_ms_ = 0
    /\ gpio_fade_up_ = TRUE
    /\ gpio_timer_running = FALSE
    /\ gpio_timer_interval = 0
    /\ hw_duty = 0
    /\ fade_active = FALSE
    /\ fade_target = 0
    /\ gpc = "idle"
    /\ gcall = NoGpioCall
    /\ gtpc = "idle"
    /\ isr_pc = "idle"
    /\ isr_preempted = "none"

(***************************************************************************)
(* SingleLed: one addressable pixel.  Its only public operation is         *)
(* OnStateChanged; the caller task runs it and the esp_timer task runs     *)
(* OnBlinkTimer.                                                           *)
(***************************************************************************)
\* voice: what IsVoiceDetected() returned, where OnStateChanged asked.
MkSingleCall(op, times, interval) ==
    [op |-> op, via |-> "OnStateChanged", state |-> "none", times |-> times,
     interval |-> interval, voice |-> FALSE]

NoSingleCall == [MkSingleCall("none", 0, 0) EXCEPT !.via = "direct"]

SingleEntryPc(op) ==
    CASE op = "TurnOn"         -> "TurnOn_lock"
      [] op = "TurnOff"        -> "TurnOff_lock"
      [] op = "StartBlinkTask" -> "StartBlinkTask_lock"
      [] OTHER                 -> "idle"

\* The switch of SingleLed::OnStateChanged: whether it calls SetColor, the
\* colour it sets, and the operation it then calls.
SingleStateBinding(state, voice) ==
    CASE state = "starting" ->
           <<TRUE, RGB(0, 0, SINGLE_DEFAULT_BRIGHTNESS),
             MkSingleCall("StartBlinkTask", BLINK_INFINITE, 100)>>
      [] state = "wifi_configuring" ->
           <<TRUE, RGB(0, 0, SINGLE_DEFAULT_BRIGHTNESS),
             MkSingleCall("StartBlinkTask", BLINK_INFINITE, 500)>>
      [] state = "idle" ->
           <<FALSE, Black, MkSingleCall("TurnOff", 0, 0)>>
      [] state = "connecting" ->
           <<TRUE, RGB(0, 0, SINGLE_DEFAULT_BRIGHTNESS),
             MkSingleCall("TurnOn", 0, 0)>>
      [] state \in {"listening", "audio_testing"} ->
           <<TRUE, RGB(IF voice THEN SINGLE_HIGH_BRIGHTNESS
                       ELSE SINGLE_LOW_BRIGHTNESS, 0, 0),
             MkSingleCall("TurnOn", 0, 0)>>
      [] state = "speaking" ->
           <<TRUE, RGB(0, SINGLE_DEFAULT_BRIGHTNESS, 0),
             MkSingleCall("TurnOn", 0, 0)>>
      [] state = "upgrading" ->
           <<TRUE, RGB(0, SINGLE_DEFAULT_BRIGHTNESS, 0),
             MkSingleCall("StartBlinkTask", BLINK_INFINITE, 100)>>
      [] state = "activating" ->
           <<TRUE, RGB(0, SINGLE_DEFAULT_BRIGHTNESS, 0),
             MkSingleCall("StartBlinkTask", BLINK_INFINITE, 500)>>
      [] OTHER ->
           <<FALSE, Black, MkSingleCall("none", 0, 0)>>

\* OnStateChanged up to the lock_guard of the operation it calls: SetColor
\* stores r_, g_, b_ without taking mutex_.
SingleCallOnStateChanged(States) ==
    \E state \in States, voice \in BOOLEAN :
        LET b == SingleStateBinding(state, voice) IN
        /\ spc = "idle"
        /\ spc' = SingleEntryPc(b[3].op)
        /\ scall' = [b[3] EXCEPT
                        !.state = state,
                        !.voice = (voice /\ state \in {"listening",
                                                        "audio_testing"})]
        /\ single_rgb_' = IF b[1] THEN b[2] ELSE single_rgb_
        /\ UNCHANGED <<single_mutex_, single_blink_counter_,
                       single_blink_interval_ms_, single_timer_running,
                       single_timer_interval, single_hw, stpc>>
        /\ UNCHANGED nonSingleVars

\* SetColor(r, g, b): stores r_, g_, b_ without taking mutex_.
SingleCallSetColor(Colors) ==
    \E color \in Colors :
        /\ spc = "idle"
        /\ scall' = [MkSingleCall("SetColor", 0, 0) EXCEPT !.via = "direct"]
        /\ single_rgb_' = color
        /\ UNCHANGED <<single_mutex_, single_blink_counter_,
                       single_blink_interval_ms_, single_timer_running,
                       single_timer_interval, single_hw, spc, stpc>>
        /\ UNCHANGED nonSingleVars

\* Blink(times, interval_ms); BlinkOnce() is Blink(1, 100) and
\* StartContinuousBlink(interval_ms) is StartBlinkTask(BLINK_INFINITE, ..).
SingleCallBlink(Times) ==
    \E times \in Times, interval \in InIntervals :
        /\ spc = "idle"
        /\ spc' = "StartBlinkTask_lock"
        /\ scall' = [MkSingleCall("StartBlinkTask", times, interval)
                        EXCEPT !.via = "direct"]
        /\ UNCHANGED <<single_mutex_, single_rgb_, single_blink_counter_,
                       single_blink_interval_ms_, single_timer_running,
                       single_timer_interval, single_hw, stpc>>
        /\ UNCHANGED nonSingleVars

\* std::lock_guard<std::mutex> lock(mutex_) in the caller.
SingleCallerLock(at, next) ==
    /\ spc = at
    /\ single_mutex_ = "free"
    /\ single_mutex_' = "caller"
    /\ spc' = next
    /\ UNCHANGED <<single_rgb_, single_blink_counter_,
                   single_blink_interval_ms_, single_timer_running,
                   single_timer_interval, single_hw, scall, stpc>>
    /\ UNCHANGED nonSingleVars

SingleTurnOnLock == SingleCallerLock("TurnOn_lock", "TurnOn_body")

\* TurnOn under the lock: stop the timer, set the pixel to r_, g_, b_,
\* refresh.
SingleTurnOnBody ==
    /\ spc = "TurnOn_body"
    /\ single_timer_running' = FALSE
    /\ single_hw' = single_rgb_
    /\ single_mutex_' = "free"
    /\ spc' = "idle"
    /\ UNCHANGED <<single_rgb_, single_blink_counter_,
                   single_blink_interval_ms_, single_timer_interval, scall,
                   stpc>>
    /\ UNCHANGED nonSingleVars

SingleTurnOffLock == SingleCallerLock("TurnOff_lock", "TurnOff_body")

\* TurnOff under the lock: stop the timer, clear the pixel.
SingleTurnOffBody ==
    /\ spc = "TurnOff_body"
    /\ single_timer_running' = FALSE
    /\ single_hw' = Black
    /\ single_mutex_' = "free"
    /\ spc' = "idle"
    /\ UNCHANGED <<single_rgb_, single_blink_counter_,
                   single_blink_interval_ms_, single_timer_interval, scall,
                   stpc>>
    /\ UNCHANGED nonSingleVars

SingleStartBlinkTaskLock ==
    SingleCallerLock("StartBlinkTask_lock", "StartBlinkTask_body")

\* A StartBlinkTask that arms the timer with a fixed period of 100 ms.
SingleStartBlinkTaskBody_Fixed ==
    /\ spc = "StartBlinkTask_body"
    /\ single_blink_counter_' = scall.times * 2
    /\ single_blink_interval_ms_' = scall.interval
    /\ single_timer_running' = TRUE
    /\ single_timer_interval' = 100
    /\ single_mutex_' = "free"
    /\ spc' = "idle"
    /\ UNCHANGED <<single_rgb_, single_hw, scall, stpc>>
    /\ UNCHANGED nonSingleVars

\* StartBlinkTask under the lock: stop the timer, set the counter to
\* times * 2, start the periodic timer.
SingleStartBlinkTaskBody ==
    /\ spc = "StartBlinkTask_body"
    /\ single_blink_counter_' = scall.times * 2
    /\ single_blink_interval_ms_' = scall.interval
    /\ LET t == EspTimerStartPeriodic(
                    EspTimerStop(Timer(single_timer_running,
                                       single_timer_interval)),
                    scall.interval) IN
        /\ single_timer_running' = t.running
        /\ single_timer_interval' = t.interval
    /\ single_mutex_' = "free"
    /\ spc' = "idle"
    /\ UNCHANGED <<single_rgb_, single_hw, scall, stpc>>
    /\ UNCHANGED nonSingleVars

\* The period of the armed blink_timer_ elapses: its callback is invoked.
SingleTimerDispatch ==
    /\ stpc = "idle"
    /\ single_timer_running
    /\ single_blink_counter_ > -(2 * MaxBlinks)
    /\ stpc' = "wait"
    /\ UNCHANGED <<single_mutex_, single_rgb_, single_blink_counter_,
                   single_blink_interval_ms_, single_timer_running,
                   single_timer_interval, single_hw, spc, scall>>
    /\ UNCHANGED nonSingleVars

\* OnBlinkTimer, its lock_guard.
SingleTimerLock ==
    /\ stpc = "wait"
    /\ single_mutex_ = "free"
    /\ single_mutex_' = "timer"
    /\ stpc' = "locked"
    /\ UNCHANGED <<single_rgb_, single_blink_counter_,
                   single_blink_interval_ms_, single_timer_running,
                   single_timer_interval, single_hw, spc, scall>>
    /\ UNCHANGED nonSingleVars

\* An OnBlinkTimer that arms the timer again unless the counter is at 0.
SingleOnBlinkTimer_Rearm ==
    /\ stpc = "locked"
    /\ LET counter == single_blink_counter_ - 1 IN
        /\ single_blink_counter_' = counter
        /\ single_hw' = IF counter % 2 = 1 THEN single_rgb_ ELSE Black
        /\ single_timer_running' = (counter # 0)
    /\ single_mutex_' = "free"
    /\ stpc' = "idle"
    /\ UNCHANGED <<single_rgb_, single_blink_interval_ms_,
                   single_timer_interval, spc, scall>>
    /\ UNCHANGED nonSingleVars

\* OnBlinkTimer under the lock: decrement, r_, g_, b_ on an odd counter,
\* clear on an even one, stop the timer at 0.
SingleOnBlinkTimer ==
    /\ stpc = "locked"
    /\ LET counter == single_blink_counter_ - 1 IN
        /\ single_blink_counter_' = counter
        /\ single_hw' = IF counter % 2 = 1 THEN single_rgb_ ELSE Black
        /\ single_timer_running' =
               IF counter % 2 = 0 /\ counter = 0 THEN FALSE
               ELSE single_timer_running
    /\ single_mutex_' = "free"
    /\ stpc' = "idle"
    /\ UNCHANGED <<single_rgb_, single_blink_interval_ms_,
                   single_timer_interval, spc, scall>>
    /\ UNCHANGED nonSingleVars

\* The state after the constructor: the pixel cleared, the timer created.
InitSingle ==
    /\ single_mutex_ = "free"
    /\ single_rgb_ = Black
    /\ single_blink_counter_ = 0
    /\ single_blink_interval_ms_ = 0
    /\ single_timer_running = FALSE
    /\ single_timer_interval = 0
    /\ single_hw = Black
    /\ spc = "idle"
    /\ scall = NoSingleCall
    /\ stpc = "idle"

(***************************************************************************)
(* One CircularStrip with its caller task and the esp_timer task.          *)
(***************************************************************************)
\* The state after the constructor: colors_ resized to max_leds_ zeroes,
\* the strip cleared, no step installed, the timer created but not started.
InitStrips(n) ==
    /\ max_leds_ = [s \in Strips |-> n]
    /\ colors_ = [s \in Strips |-> Fill(n, Black)]
    /\ pixels = [s \in Strips |-> Fill(n, Black)]
    /\ hw = [s \in Strips |-> Fill(n, Black)]
    /\ led_strip_ = [s \in Strips |-> "valid"]
    /\ mutex_ = [s \in Strips |-> "free"]
    /\ timer_running = [s \in Strips |-> FALSE]
    /\ timer_interval = [s \in Strips |-> 0]
    /\ strip_callback_ = [s \in Strips |-> NullCb]
    /\ default_brightness_ = [s \in Strips |-> DEFAULT_BRIGHTNESS]
    /\ low_brightness_ = [s \in Strips |-> LOW_BRIGHTNESS]
    /\ blink_on = TRUE
    /\ breathe_increase = TRUE
    /\ breathe_color = Black
    /\ breathe_inited = FALSE
    /\ scroll_offset = 0
    /\ cpc = "idle"
    /\ call = NoCall
    /\ c_i = 0
    /\ tpc = "idle"
    /\ t_strip = 1
    /\ tick_cb = NullCb
    /\ fresh = [s \in Strips |-> FALSE]
    /\ call_stopped = FALSE
    /\ call_wrote = FALSE
    /\ use_after_free = FALSE
    /\ heap_overrun = FALSE
    /\ ticks = 0
    /\ fade_m = 0
    /\ repeat = FALSE
    /\ first = [call |-> NoCall, frame |-> Fill(n, Black)]
    /\ InitGpio
    /\ InitSingle

Init == InitStrips(MaxLeds) /\ tick_cap = 0

Next ==
    \/ CallSetAllColor(1, InColors)
    \/ CallSetSingleColor(1, InColors, Pixels(MaxLeds))
    \/ CallBlink(1, InColors)
    \/ CallFadeOut(1)
    \/ CallBreathe(1, InBreathe)
    \/ CallScroll(1, InScroll, InLengths)
    \/ BlinkFill
    \/ ScrollFill
    \/ StartStripTaskLock
    \/ StartStripTaskBody
    \/ SetAllColorLock
    \/ SetAllColorBody
    \/ SetSingleColorLock
    \/ SetSingleColorBody
    \/ Destroy(1)
    \/ TimerDispatch(1)
    \/ TimerLock
    \/ TimerRun

Spec == Init /\ [][Next]_vars

(***************************************************************************)
(* Two CircularStrip objects driven by the same caller task and the same   *)
(* esp_timer task (which runs one callback at a time).                     *)
(***************************************************************************)
NextTwo ==
    \/ \E s \in Strips : CallBlink(s, {RGB(1, 0, 0)})
    \/ \E s \in Strips : CallScroll(s, InScroll, {1})
    \/ BlinkFill
    \/ ScrollFill
    \/ StartStripTaskLock
    \/ StartStripTaskBody
    \/ \E s \in Strips : TimerDispatch(s)
    \/ TimerLock
    \/ TimerRun

SpecTwo == Init /\ [][NextTwo]_vars

(***************************************************************************)
(* One GpioLed with its caller task, the esp_timer task and the LEDC       *)
(* interrupt.                                                              *)
(***************************************************************************)
InPercents == {0, 50, 100}
InTimes == {BLINK_INFINITE, 0, 1, 2}

NextGpio ==
    \/ GpioSetBrightness(InPercents)
    \/ GpioCallTurnOn
    \/ GpioCallTurnOff
    \/ GpioCallBlink(InTimes)
    \/ GpioCallStartFadeTask
    \/ GpioCallOnStateChanged(DeviceStates)
    \/ GpioTurnOnLock
    \/ GpioTurnOnBody
    \/ GpioTurnOffLock
    \/ GpioTurnOffBody
    \/ GpioStartBlinkTaskLock
    \/ GpioStartBlinkTaskBody
    \/ GpioStartFadeTaskLock
    \/ GpioStartFadeTaskBody
    \/ GpioTimerDispatch
    \/ GpioTimerLock
    \/ OnBlinkTimer
    \/ FadeCallback
    \/ OnFadeEndLock
    \/ OnFadeEnd

SpecGpio == Init /\ [][NextGpio]_vars

\* One GpioLed that is never asked to blink: the hardware fade unit and its
\* interrupt are the only source of events.  A ramp that was started
\* completes, and its handler gets mutex_ once the caller has released it.
NextFadeTask ==
    \/ GpioSetBrightness(InPercents)
    \/ GpioCallTurnOn
    \/ GpioCallTurnOff
    \/ GpioCallStartFadeTask
    \/ GpioTurnOnLock
    \/ GpioTurnOnBody
    \/ GpioTurnOffLock
    \/ GpioTurnOffBody
    \/ GpioStartFadeTaskLock
    \/ GpioStartFadeTaskBody
    \/ FadeCallback
    \/ OnFadeEndLock
    \/ OnFadeEnd

SpecFadeTask ==
    /\ Init
    /\ [][NextFadeTask]_vars
    /\ WF_vars(FadeCallback)
    /\ WF_vars(OnFadeEndLock)
    /\ WF_vars(OnFadeEnd)

(***************************************************************************)
(* One CircularStrip driven sequentially: each call runs to its return     *)
(* before a timer period elapses, and each callback runs to its end        *)
(* before the next call.                                                   *)
(***************************************************************************)
FadeColors == {RGB(v, 0, 0) : v \in 0 .. MaxLevel}
FadeSingles == {RGB(0, 3, 0), RGB(0, 0, 255)}

InitFade ==
    /\ \E n \in 1 .. MaxLeds : InitStrips(n)
    /\ tick_cap = MaxFadeTicks

NextFade ==
    \/ tpc = "idle" /\ CallSetAllColor(1, FadeColors)
    \/ tpc = "idle" /\ CallSetSingleColor(1, FadeSingles, Pixels(max_leds_[1]))
    \/ tpc = "idle" /\ CallFadeOut(1)
    \/ StartStripTaskLock
    \/ StartStripTaskBody
    \/ SetAllColorLock
    \/ SetAllColorBody
    \/ SetSingleColorLock
    \/ SetSingleColorBody
    \/ cpc = "idle" /\ TimerDispatch(1)
    \/ TimerLock
    \/ TimerRun

SpecFade == InitFade /\ [][NextFade]_vars

\* Every effect, driven sequentially.  The periodic
\* timer keeps firing while it is armed, and a callback that waits for
\* mutex_ gets it once the caller has left its locked section.
TimerPeriod == cpc = "idle" /\ TimerDispatch(1)

InitSeq == InitStrips(MaxLeds) /\ tick_cap = 0

NextSeq ==
    \/ tpc = "idle" /\ CallSetAllColor(1, InColors)
    \/ tpc = "idle" /\ CallBlink(1, InColors)
    \/ tpc = "idle" /\ CallFadeOut(1)
    \/ tpc = "idle" /\ CallBreathe(1, InBreathe)
    \/ tpc = "idle" /\ CallScroll(1, InScroll, InLengths)
    \/ BlinkFill
    \/ ScrollFill
    \/ StartStripTaskLock
    \/ StartStripTaskBody
    \/ SetAllColorLock
    \/ SetAllColorBody
    \/ TimerPeriod
    \/ TimerLock
    \/ TimerRun

SpecSeq ==
    /\ InitSeq
    /\ [][NextSeq]_vars
    /\ WF_vars(TimerPeriod)
    /\ WF_vars(TimerLock)
    /\ WF_vars(TimerRun)

\* Breathe alone, driven sequentially.
BreatheBounds ==
    {<<Black, RGB(10, 10, 10)>>, <<RGB(1, 0, 2), RGB(3, 2, 2)>>,
     <<RGB(0, 1, 1), RGB(0, 1, 3)>>}

InitBreathe == InitStrips(MaxLeds) /\ tick_cap = MaxBreatheTicks

NextBreathe ==
    \/ tpc = "idle" /\ CallBreathe(1, BreatheBounds)
    \/ StartStripTaskLock
    \/ StartStripTaskBody
    \/ TimerPeriod
    \/ TimerLock
    \/ TimerRun

SpecBreathe == InitBreathe /\ [][NextBreathe]_vars

\* Scroll alone, on strips of 1 to MaxScrollLeds pixels, with windows from
\* empty to longer than the strip.
ScrollLengths == 0 .. (MaxScrollLeds + 1)

InitScroll ==
    /\ \E n \in 1 .. MaxScrollLeds : InitStrips(n)
    /\ tick_cap = MaxScrollTicks

NextScroll ==
    \/ tpc = "idle" /\ CallScroll(1, InScroll, ScrollLengths)
    \/ ScrollFill
    \/ StartStripTaskLock
    \/ StartStripTaskBody
    \/ TimerPeriod
    \/ TimerLock
    \/ TimerRun

SpecScroll == InitScroll /\ [][NextScroll]_vars

\* The device-state bindings, driven sequentially.
NextBind ==
    \/ tpc = "idle" /\ CallOnStateChanged(1)
    \/ BlinkFill
    \/ ScrollFill
    \/ StartStripTaskLock
    \/ StartStripTaskBody
    \/ SetAllColorLock
    \/ SetAllColorBody
    \/ TimerPeriod
    \/ TimerLock
    \/ TimerRun

SpecBind == InitSeq /\ [][NextBind]_vars

\* The device-state bindings and the brightness levels of a CircularStrip,
\* driven sequentially.
NextLevels ==
    \/ tpc = "idle" /\ CallOnStateChanged(1)
    \/ tpc = "idle" /\ CallSetBrightness(1)
    \/ BlinkFill
    \/ ScrollFill
    \/ StartStripTaskLock
    \/ StartStripTaskBody
    \/ SetAllColorLock
    \/ SetAllColorBody
    \/ TimerPeriod
    \/ TimerLock
    \/ TimerRun

InitLevels == InitStrips(MaxLeds) /\ tick_cap = 1

SpecLevels == InitLevels /\ [][NextLevels]_vars

(***************************************************************************)
(* The LED of a board: one object of one of the three variants, notified   *)
(* of every device-state change.  A notification runs to its return before *)
(* a timer period elapses or a ramp completes, and a callback runs to its   *)
(* end before the next notification.                                       *)
(***************************************************************************)
\* The board's LED is the CircularStrip, the GpioLed or the SingleLed: the
\* other two objects are never used.
StripIsLed == gcall = NoGpioCall /\ scall = NoSingleCall
GpioIsLed == call = NoCall /\ scall = NoSingleCall
SingleIsLed == call = NoCall /\ gcall = NoGpioCall

NextBoard ==
    \/ StripIsLed /\ tpc = "idle" /\ CallOnStateChanged(1)
    \/ BlinkFill
    \/ ScrollFill
    \/ StartStripTaskLock
    \/ StartStripTaskBody
    \/ SetAllColorLock
    \/ SetAllColorBody
    \/ TimerPeriod
    \/ TimerLock
    \/ TimerRun
    \/ /\ GpioIsLed /\ gtpc = "idle" /\ isr_pc = "idle"
       /\ GpioCallOnStateChanged(DeviceStates)
    \/ GpioTurnOnLock
    \/ GpioTurnOnBody
    \/ GpioStartBlinkTaskLock
    \/ GpioStartBlinkTaskBody
    \/ GpioStartFadeTaskLock
    \/ GpioStartFadeTaskBody
    \/ gpc = "idle" /\ isr_pc = "idle" /\ GpioTimerDispatch
    \/ GpioTimerLock
    \/ OnBlinkTimer
    \/ gpc = "idle" /\ gtpc = "idle" /\ FadeCallback
    \/ OnFadeEndLock
    \/ OnFadeEnd
    \/ /\ SingleIsLed /\ stpc = "idle"
       /\ SingleCallOnStateChanged(DeviceStates)
    \/ SingleTurnOnLock
    \/ SingleTurnOnBody
    \/ SingleTurnOffLock
    \/ SingleTurnOffBody
    \/ SingleStartBlinkTaskLock
    \/ SingleStartBlinkTaskBody
    \/ spc = "idle" /\ SingleTimerDispatch
    \/ SingleTimerLock
    \/ SingleOnBlinkTimer

SpecBoard == InitSeq /\ [][NextBoard]_vars

\* The same LED with nothing ordered: a call may arrive while a callback
\* is in flight, and a period may elapse or a ramp complete while a call is
\* being served.  The CircularStrip is driven through SetAllColor, Blink
\* and FadeOut, the other two through their notifications.
NextLed ==
    \/ StripIsLed /\ CallSetAllColor(1, InColors)
    \/ StripIsLed /\ CallBlink(1, InColors)
    \/ StripIsLed /\ CallFadeOut(1)
    \/ BlinkFill
    \/ StartStripTaskLock
    \/ StartStripTaskBody
    \/ SetAllColorLock
    \/ SetAllColorBody
    \/ TimerDispatch(1)
    \/ TimerLock
    \/ TimerRun
    \/ GpioIsLed /\ GpioCallOnStateChanged(DeviceStates)
    \/ GpioTurnOnLock
    \/ GpioTurnOnBody
    \/ GpioStartBlinkTaskLock
    \/ GpioStartBlinkTaskBody
    \/ GpioStartFadeTaskLock
    \/ GpioStartFadeTaskBody
    \/ GpioTimerDispatch
    \/ GpioTimerLock
    \/ OnBlinkTimer
    \/ FadeCallback
    \/ OnFadeEndLock
    \/ OnFadeEnd
    \/ SingleIsLed /\ SingleCallOnStateChanged(DeviceStates)
    \/ SingleTurnOnLock
    \/ SingleTurnOnBody
    \/ SingleTurnOffLock
    \/ SingleTurnOffBody
    \/ SingleStartBlinkTaskLock
    \/ SingleStartBlinkTaskBody
    \/ SingleTimerDispatch
    \/ SingleTimerLock
    \/ SingleOnBlinkTimer

SpecLed == InitLevels /\ [][NextLed]_vars

\* The blink operations of a GpioLed or a SingleLed, called with every
\* class of times: BLINK_INFINITE, 0, and a finite number of blinks.  A
\* call runs to its return before a period elapses, and a tick runs to its
\* end before the next call.
BlinkColors == {Black, RGB(0, 0, SINGLE_DEFAULT_BRIGHTNESS),
                RGB(SINGLE_HIGH_BRIGHTNESS, 0, 0)}
BlinkTimes == {BLINK_INFINITE} \cup (0 .. MaxBlinks)

NextBlink ==
    \/ GpioIsLed /\ gtpc = "idle" /\ GpioSetBrightness(InPercents)
    \/ GpioIsLed /\ gtpc = "idle" /\ GpioCallBlink(BlinkTimes)
    \/ GpioStartBlinkTaskLock
    \/ GpioStartBlinkTaskBody
    \/ gpc = "idle" /\ GpioTimerDispatch
    \/ GpioTimerLock
    \/ OnBlinkTimer
    \/ SingleIsLed /\ stpc = "idle" /\ SingleCallSetColor(BlinkColors)
    \/ SingleIsLed /\ stpc = "idle" /\ SingleCallBlink(BlinkTimes)
    \/ SingleStartBlinkTaskLock
    \/ SingleStartBlinkTaskBody
    \/ spc = "idle" /\ SingleTimerDispatch
    \/ SingleTimerLock
    \/ SingleOnBlinkTimer

SpecBlink == InitLevels /\ [][NextBlink]_vars

\* SetBrightness of a GpioLed with every value of its uint8_t argument.
UINT8_MAX == 255
InUint8 == 0 .. UINT8_MAX

NextDuty == GpioSetBrightness(InUint8)

SpecDuty == Init /\ [][NextDuty]_vars

\* SetSingleColor with every uint8_t index class: inside the strip, the
\* first index past its end, and further out; driven sequentially.
InIndices == 0 .. (MaxLeds + 1)

InitIndex ==
    /\ \E n \in 1 .. MaxLeds : InitStrips(n)
    /\ tick_cap = 0

NextIndex ==
    \/ tpc = "idle" /\ CallSetAllColor(1, InColors)
    \/ tpc = "idle" /\ CallSetSingleColor(1, InColors, InIndices)
    \/ tpc = "idle" /\ CallBlink(1, InColors)
    \/ BlinkFill
    \/ StartStripTaskLock
    \/ StartStripTaskBody
    \/ SetAllColorLock
    \/ SetAllColorBody
    \/ SetSingleColorLock
    \/ SetSingleColorBody
    \/ TimerPeriod
    \/ TimerLock
    \/ TimerRun

SpecIndex == InitIndex /\ [][NextIndex]_vars

(***************************************************************************)
(* Claims about one CircularStrip (specification Spec).                    *)
(***************************************************************************)
LockedPcs == {"StartStripTask_body", "SetAllColor_body", "SetSingleColor_body"}
FillPcs == {"Blink_fill", "Scroll_fill"}

\* C1: once SetAllColor(c) has returned and no further operation is called,
\* every pixel of colors_ and of the hardware output equals c, in every
\* later state (no residual animation).
C1_SetAllColorIsFinal ==
    (cpc = "idle" /\ call.op = "SetAllColor" /\ led_strip_[call.strip] = "valid")
        => /\ colors_[call.strip] = Fill(max_leds_[call.strip], call.color)
           /\ hw[call.strip] = Fill(max_leds_[call.strip], call.color)

\* C2: the step a tick executes is the step installed at that moment: once
\* StartStripTask has replaced strip_callback_, no tick runs the old step.
C2_TickRunsInstalledStep ==
    tpc = "locked" => tick_cb = strip_callback_[t_strip]

\* C2 witness: a tick holds the lock and is about to run the step of a
\* StartStripTask that has returned, as the first tick since that install.
C2_Witness ==
    /\ tpc = "locked"
    /\ cpc = "idle"
    /\ call.op \in {"Blink", "FadeOut", "Breathe", "Scroll"}
    /\ fresh[t_strip]
    /\ tick_cb = CbOf(call)
    /\ tick_cb.kind = "scroll"

\* C3: the tick runs its step only while it holds mutex_, the caller runs
\* its locked sections only while it holds mutex_, and the two never hold
\* it together.
C3_MutualExclusion ==
    /\ tpc = "locked" => mutex_[t_strip] = "timer"
    /\ cpc \in LockedPcs => mutex_[call.strip] = "caller"
    /\ ~(tpc = "locked" /\ cpc \in LockedPcs /\ t_strip = call.strip)

\* C3 witness: a dispatched tick waits for mutex_ while the caller is inside
\* the locked section of StartStripTask with a step already installed.
C3_Witness ==
    /\ tpc = "wait"
    /\ cpc = "StartStripTask_body"
    /\ t_strip = call.strip
    /\ strip_callback_[t_strip].kind = "fadeout"
    /\ mutex_[t_strip] = "caller"

\* C4: in every mutator the call's timer stop precedes the call's first
\* write to colors_.
C4_StopBeforeWrite == call_wrote => call_stopped

\* C5: the caller writes colors_ only while it holds mutex_, and never while
\* a tick is executing a step that reads or writes colors_.
C5_WritesUnderLock ==
    cpc \in FillPcs =>
        /\ mutex_[call.strip] = "caller"
        /\ ~(tpc = "locked" /\ t_strip = call.strip
             /\ tick_cb.kind \in {"blink", "fadeout", "scroll"})

\* C6: no timer callback touches the object after its destructor has
\* released the LED strip.
C6_NoUseAfterFree == ~use_after_free

\* C9: the first tick after a Blink(color) call has returned displays color
\* on every pixel.
C9_BlinkRestartsOn ==
    [][(/\ TimerRun
        /\ cpc = "idle"
        /\ call.op = "Blink"
        /\ tick_cb.kind = "blink"
        /\ fresh[t_strip]
        /\ led_strip_[t_strip] = "valid")
       => hw'[t_strip] = Fill(max_leds_[t_strip], call.color)]_vars

\* C10: the first tick of a newly installed Scroll paints the window at
\* offset 0, and the first tick of a newly installed Breathe(low, high)
\* displays low moved one step towards high.
C10_EffectStateReset ==
    [][(/\ TimerRun
        /\ cpc = "idle"
        /\ fresh[t_strip]
        /\ led_strip_[t_strip] = "valid")
       => /\ tick_cb.kind = "scroll" =>
               hw'[t_strip] =
                   [i \in Pixels(max_leds_[t_strip]) |->
                       IF i \in ScrollWindow(max_leds_[t_strip], 0, tick_cb.length)
                       THEN tick_cb.high ELSE tick_cb.low]
          /\ tick_cb.kind = "breathe" =>
               hw'[t_strip] =
                   Fill(max_leds_[t_strip],
                        RGB(Up(tick_cb.low.red, tick_cb.high.red),
                            Up(tick_cb.low.green, tick_cb.high.green),
                            Up(tick_cb.low.blue, tick_cb.high.blue)))]_vars

(***************************************************************************)
(* Claims about two CircularStrip objects (specification SpecTwo).         *)
(***************************************************************************)
\* The frame strip s displays if its tick runs now.
TickFrame(s) == RunStep(strip_callback_[s], max_leds_[s], EffectState(s)).hw

\* C8: a tick of one CircularStrip does not change the frame the next tick
\* of another CircularStrip displays.
C8_InstancesIndependent ==
    [][\A s \in Strips :
         (TimerRun /\ t_strip # s) => TickFrame(s)' = TickFrame(s)]_vars

(***************************************************************************)
(* Further claims about one CircularStrip under concurrency (Spec).        *)
(***************************************************************************)
\* C19: after Blink(color) has returned, whatever ran before and however
\* its ticks interleaved with the call, every tick of the blink step shows
\* either color on every pixel or all pixels off, alternating from one tick
\* to the next, and leaves the timer running.
C19_BlinkAlternates ==
    [][(/\ TimerRun
        /\ cpc = "idle"
        /\ call.op = "Blink"
        /\ call.strip = t_strip
        /\ tick_cb.kind = "blink"
        /\ led_strip_[t_strip] = "valid")
       => /\ hw'[t_strip] = IF blink_on
                            THEN Fill(max_leds_[t_strip], call.color)
                            ELSE Fill(max_leds_[t_strip], Black)
          /\ blink_on' = ~blink_on
          /\ timer_running'[t_strip] = timer_running[t_strip]]_vars

\* C20: SetSingleColor(index, color) with index inside the strip stops the
\* timer, sets colors_[index] to color and leaves every other entry of
\* colors_ as it was.
C20_SetSingleColorFrame ==
    [][(SetSingleColorBody /\ call.index \in Pixels(max_leds_[call.strip]))
       => /\ ~timer_running'[call.strip]
          /\ colors_'[call.strip][call.index] = call.color
          /\ \A j \in Pixels(max_leds_[call.strip]) \ {call.index} :
                colors_'[call.strip][j] = colors_[call.strip][j]]_vars

\* SetSingleColor(0, black) has returned on a strip whose blink was running:
\* the timer is stopped, pixel 0 is black, pixel 1 kept its colour.
C20_Witness ==
    /\ cpc = "idle"
    /\ call.op = "SetSingleColor"
    /\ call.index = 0
    /\ call.color = Black
    /\ strip_callback_[1].kind = "blink"
    /\ ~timer_running[1]
    /\ colors_[1][0] = Black
    /\ colors_[1][1] = RGB(1, 0, 0)

(***************************************************************************)
(* Claims about FadeOut (specification SpecFade).                          *)
(***************************************************************************)
CeilLog2(m) == CHOOSE k \in 0 .. 8 : m <= 2^k /\ (k = 0 \/ 2^(k - 1) < m)
FloorLog2(m) == CHOOSE k \in 0 .. 8 : 2^k <= m /\ m < 2^(k + 1)

\* FadeOut has returned on a buffer whose largest channel was at least 1,
\* and no callback is in progress.
FadeStarted ==
    /\ cpc = "idle"
    /\ tpc = "idle"
    /\ call.op = "FadeOut"
    /\ strip_callback_[1].kind = "fadeout"
    /\ fade_m >= 1

FadeFinished ==
    /\ colors_[1] = Fill(max_leds_[1], Black)
    /\ hw[1] = Fill(max_leds_[1], Black)
    /\ ~timer_running[1]

\* C12 as stated: after at most ceil(log2(m)) ticks of a FadeOut started on
\* a buffer whose largest channel is m, every channel is zero and the timer
\* has stopped itself.
C12_ZeroWithinCeilLog2 ==
    (FadeStarted /\ ticks >= CeilLog2(fade_m)) => FadeFinished

\* C12 amended: every channel is zero and the timer has stopped itself after
\* exactly floor(log2(m)) + 1 ticks, not earlier, and one more execution of
\* the step would leave the buffer as it is.
C12_ZeroAfterBitLength ==
    FadeStarted =>
        IF ticks >= FloorLog2(fade_m) + 1
        THEN /\ FadeFinished
             /\ ticks = FloorLog2(fade_m) + 1
             /\ RunStep(FadeOutCb, max_leds_[1], EffectState(1)).colors
                    = colors_[1]
        ELSE /\ colors_[1] # Fill(max_leds_[1], Black)
             /\ timer_running[1]

\* A FadeOut started at largest channel 4 has ended after its third tick.
C12_Witness ==
    FadeStarted /\ fade_m = 4 /\ ticks = 3 /\ FadeFinished

\* C13: each FadeOut tick replaces every channel v of every pixel of colors_
\* by floor(v / 2); on the tick after which every channel is zero it clears
\* the display and stops the timer, on every earlier tick it commits the
\* halved buffer and leaves the timer as it is.
C13_FadeOutTick ==
    [][(TimerRun /\ tick_cb.kind = "fadeout" /\ led_strip_[t_strip] = "valid")
       => LET s == t_strip
              n == max_leds_[s]
          IN  /\ \A i \in Pixels(n) :
                    /\ 2 * colors_'[s][i].red \in
                           {colors_[s][i].red, colors_[s][i].red - 1}
                    /\ 2 * colors_'[s][i].green \in
                           {colors_[s][i].green, colors_[s][i].green - 1}
                    /\ 2 * colors_'[s][i].blue \in
                           {colors_[s][i].blue, colors_[s][i].blue - 1}
              /\ IF colors_'[s] = Fill(n, Black)
                 THEN ~timer_running'[s] /\ hw'[s] = Fill(n, Black)
                 ELSE /\ timer_running'[s] = timer_running[s]
                      /\ hw'[s] = colors_'[s]]_vars

\* The first tick of a FadeOut started at 5 and 255 has left 2 and 127 and
\* the timer running.
C13_Witness ==
    /\ FadeStarted
    /\ max_leds_[1] = 2
    /\ ticks = 1
    /\ colors_[1][0] = RGB(2, 0, 0)
    /\ colors_[1][1] = RGB(0, 0, 127)
    /\ hw[1] = colors_[1]
    /\ timer_running[1]

(***************************************************************************)
(* Claims about sequentially driven effects (SpecBind, SpecSeq).           *)
(***************************************************************************)
\* C11: OnStateChanged() called twice in a row with an unchanged device
\* state installs the same effect twice, each time from its initial phase:
\* the frames shown by the ticks after the second call are those shown by
\* the ticks after the first.  Stated for the bindings whose frames depend
\* on the call alone (Blink and Scroll; a FadeOut continues from the buffer
\* it finds): the first tick after the second call shows the frame the
\* first tick after the first call showed.
C11_SameFramesAfterRepeat ==
    [][(/\ TimerRun
        /\ fresh[t_strip]
        /\ tick_cb.kind \in {"blink", "scroll"}
        /\ cpc = "idle"
        /\ call.via = "OnStateChanged"
        /\ call.strip = t_strip
        /\ repeat
        /\ first.call = call)
       => hw'[t_strip] = first.frame]_vars

BreatheStarted ==
    /\ cpc = "idle"
    /\ tpc = "idle"
    /\ call.op = "Breathe"
    /\ strip_callback_[1] = BreatheCb(call.low, call.high)

\* C15: after Breathe(low = {0,0,0}, high = {10,10,10}) the 10th tick
\* displays exactly high and the 20th tick displays exactly low, and the
\* direction flips only on a tick at which all three channels equal the
\* bound of the current direction.
C15_BreatheTenTicks ==
    /\ []((BreatheStarted /\ call.low = Black /\ call.high = RGB(10, 10, 10))
          => /\ ticks = 10 => hw[1] = Fill(max_leds_[1], call.high)
             /\ ticks = 20 => hw[1] = Fill(max_leds_[1], call.low))
    /\ [][(TimerRun /\ tick_cb.kind = "breathe"
                    /\ breathe_increase' # breathe_increase)
          => breathe_color' = IF breathe_increase THEN tick_cb.high
                              ELSE tick_cb.low]_vars

Within(c, low, high) ==
    /\ low.red <= c.red /\ c.red <= high.red
    /\ low.green <= c.green /\ c.green <= high.green
    /\ low.blue <= c.blue /\ c.blue <= high.blue

\* C16: for every Breathe(low, high) with low <= high in each channel, every
\* tick displays a colour whose channels lie within [low, high], and the
\* direction reverses exactly on the tick at which all three channels equal
\* the bound of the current direction.
C16_BreatheWithinBounds ==
    [][(TimerRun /\ cpc = "idle" /\ call.op = "Breathe"
                 /\ tick_cb = BreatheCb(call.low, call.high))
       => /\ \A i \in Pixels(max_leds_[t_strip]) :
                Within(hw'[t_strip][i], call.low, call.high)
          /\ (breathe_increase' # breathe_increase)
                <=> (breathe_color' = IF breathe_increase THEN call.high
                                      ELSE call.low)]_vars

(***************************************************************************)
(* Claims about Scroll (specification SpecScroll).                         *)
(***************************************************************************)
\* C17: on a strip of 6 pixels, after Scroll(low, high, 3) the window is at
\* pixels (offset, offset + 1, offset + 2) mod 6, the rest low, for offset
\* in 0 .. 5, where offset counts the ticks delivered since the call before
\* the tick that paints it.
C17_ScrollWindowAtTick ==
    [][(/\ TimerRun
        /\ cpc = "idle"
        /\ call.op = "Scroll"
        /\ call.length = 3
        /\ tick_cb = ScrollCb(call.low, call.high, 3)
        /\ max_leds_[t_strip] = 6
        /\ ticks \in 0 .. 5)
       => \A i \in 0 .. 5 :
             colors_'[t_strip][i] =
                 IF i \in {ticks % 6, (ticks + 1) % 6, (ticks + 2) % 6}
                 THEN call.high ELSE call.low]_vars

\* C18: for every pixel count N >= 1 and every length >= 0 a Scroll tick
\* writes buffer indices 0 .. N-1 only, paints exactly min(length, N)
\* circularly contiguous pixels high, starting at the window start, and all
\* others low, and moves the window start by one modulo N.
C18_ScrollTick ==
    [][(TimerRun /\ tick_cb.kind = "scroll")
       => LET s == t_strip
              n == max_leds_[s]
              w == IF tick_cb.length < n THEN tick_cb.length ELSE n
          IN  /\ DOMAIN colors_'[s] = 0 .. (n - 1)
              /\ scroll_offset \in 0 .. (n - 1)
              /\ \A i \in 0 .. (n - 1) :
                    colors_'[s][i] =
                        IF (i - scroll_offset) % n < w
                        THEN tick_cb.high ELSE tick_cb.low
              /\ hw'[s] = colors_'[s]
              /\ scroll_offset' = (scroll_offset + 1) % n]_vars

\* On a strip of MaxScrollLeds pixels a window of 3 has wrapped around the
\* end: the tick painted the last pixel and the first two.
C18_Witness ==
    /\ cpc = "idle"
    /\ tpc = "idle"
    /\ call.op = "Scroll"
    /\ call.length = 3
    /\ call.low # call.high
    /\ max_leds_[1] = MaxScrollLeds
    /\ scroll_offset = 0
    /\ \A i \in Pixels(MaxScrollLeds) :
          colors_[1][i] = IF i \in {MaxScrollLeds - 1, 0, 1}
                          THEN call.high ELSE call.low
    /\ hw[1] = colors_[1]

(***************************************************************************)
(* Claims about pixel indices (specification SpecIndex).                   *)
(***************************************************************************)
\* C21: SetSingleColor with an index at or past the pixel count is rejected:
\* it writes no element of colors_, nothing beyond the buffer, and changes
\* nothing the LEDs display.
C21_OutOfRangeRejected ==
    [][(SetSingleColorBody /\ call.index >= max_leds_[call.strip])
       => /\ heap_overrun' = heap_overrun
          /\ colors_' = colors_
          /\ pixels' = pixels
          /\ hw' = hw]_vars

(***************************************************************************)
(* Claims about the device-state bindings of the three variants            *)
(* (specification SpecBoard).                                              *)
(***************************************************************************)
\* The last notification has returned and no callback is in progress.
StripQuiet == cpc = "idle" /\ tpc = "idle" /\ call.via = "OnStateChanged"
GpioQuiet ==
    /\ gpc = "idle" /\ gtpc = "idle" /\ isr_pc = "idle"
    /\ gcall.via = "OnStateChanged"
SingleQuiet == spc = "idle" /\ stpc = "idle" /\ scall.via = "OnStateChanged"

\* C25: in every variant OnStateChanged in state idle installs FadeOut or
\* TurnOff: once the call has returned (and, for FadeOut, its timer has
\* stopped itself) the output is fully off and the timer is stopped.
C25_IdleIsOff ==
    /\ (StripQuiet /\ call.state = "idle")
          => /\ strip_callback_[1].kind = "fadeout"
             /\ timer_running[1] \/ FadeFinished
    /\ (GpioQuiet /\ gcall.state = "idle")
          => /\ hw_duty = 0
             /\ ~gpio_timer_running
             /\ ~fade_active
    /\ (SingleQuiet /\ scall.state = "idle")
          => /\ single_hw = Black
             /\ ~single_timer_running

\* C26: in every variant OnStateChanged in state listening or audio-testing
\* produces a solid, non-animated output (the timer stopped, no fade in
\* progress, the output constant at the configured value), and where the
\* variant asks for the voice-detected flag the output is the high
\* brightness with the flag set and the low brightness without it.
C26_ListeningIsSolid ==
    /\ (StripQuiet /\ call.state \in {"listening", "audio_testing"})
          => /\ ~timer_running[1]
             /\ hw[1] = Fill(max_leds_[1], call.color)
    /\ (GpioQuiet /\ gcall.state \in {"listening", "audio_testing"})
          => /\ ~gpio_timer_running
             /\ ~fade_active
             /\ hw_duty = gpio_duty_
             /\ gpio_duty_ \in {Duty(GPIO_HIGH_BRIGHTNESS),
                                Duty(GPIO_LOW_BRIGHTNESS)}
    /\ (SingleQuiet /\ scall.state \in {"listening", "audio_testing"})
          => /\ ~single_timer_running
             /\ single_hw = RGB(IF scall.voice THEN SINGLE_HIGH_BRIGHTNESS
                                 ELSE SINGLE_LOW_BRIGHTNESS, 0, 0)

\* The period the table gives for the animated device states.
TableInterval(state) ==
    CASE state = "starting"         -> 100
      [] state = "wifi_configuring" -> 500
      [] state = "upgrading"        -> 100
      [] state = "activating"       -> 500
      [] OTHER                      -> 0

Animated == {"starting", "wifi_configuring", "upgrading", "activating"}

\* C27: in every variant OnStateChanged installs a periodic animation with
\* the tabulated interval for the animated states: a continuous blink at
\* 500 ms for wifi-configuring and activating and at 100 ms for upgrading;
\* for starting a Scroll with a 3-pixel window at 100 ms on CircularStrip
\* and a continuous blink at 100 ms on SingleLed and GpioLed; after the call
\* the timer is running with exactly that interval.
C27_AnimatedBindings ==
    /\ (cpc = "idle" /\ call.via = "OnStateChanged" /\ call.state \in Animated)
          => /\ timer_running[1]
             /\ timer_interval[1] = TableInterval(call.state)
             /\ strip_callback_[1].kind =
                    IF call.state = "starting" THEN "scroll" ELSE "blink"
             /\ call.state = "starting" => strip_callback_[1].length = 3
    /\ (gpc = "idle" /\ gcall.via = "OnStateChanged"
                     /\ gcall.state \in Animated)
          => /\ gpio_timer_running
             /\ gpio_timer_interval = TableInterval(gcall.state)
             /\ gpio_blink_counter_ < 0
             /\ ~fade_active
    /\ (spc = "idle" /\ scall.via = "OnStateChanged"
                     /\ scall.state \in Animated)
          => /\ single_timer_running
             /\ single_timer_interval = TableInterval(scall.state)
             /\ single_blink_counter_ < 0

\* The blink installed for wifi-configuring on a SingleLed is running at
\* 500 ms and its first tick has shown the colour.
C27_Witness ==
    /\ spc = "idle"
    /\ stpc = "idle"
    /\ scall.state = "wifi_configuring"
    /\ single_timer_running
    /\ single_timer_interval = 500
    /\ single_blink_counter_ = -3
    /\ single_hw = RGB(0, 0, SINGLE_DEFAULT_BRIGHTNESS)

\* C28: in every variant OnStateChanged in state connecting or speaking
\* produces a solid output: once the call has returned the timer is
\* stopped, no fade is in progress, and the output is the constant colour
\* or duty the variant derives from its brightness configuration.
C28_SolidBindings ==
    /\ (StripQuiet /\ call.state \in {"connecting", "speaking"})
          => LET d == default_brightness_[1]
                 l == low_brightness_[1]
                 c == IF call.state = "connecting" THEN RGB(l, l, d)
                      ELSE RGB(l, d, l)
             IN  /\ ~timer_running[1]
                 /\ colors_[1] = Fill(max_leds_[1], c)
                 /\ hw[1] = Fill(max_leds_[1], c)
    /\ (GpioQuiet /\ gcall.state \in {"connecting", "speaking"})
          => /\ ~gpio_timer_running
             /\ ~fade_active
             /\ gpio_duty_ = Duty(IF gcall.state = "connecting"
                                  THEN GPIO_DEFAULT_BRIGHTNESS
                                  ELSE SPEAKING_BRIGHTNESS)
             /\ hw_duty = gpio_duty_
    /\ (SingleQuiet /\ scall.state \in {"connecting", "speaking"})
          => /\ ~single_timer_running
             /\ single_hw = IF scall.state = "connecting"
                            THEN RGB(0, 0, SINGLE_DEFAULT_BRIGHTNESS)
                            ELSE RGB(0, SINGLE_DEFAULT_BRIGHTNESS, 0)

\* A GpioLed that was breathing (listening) has been notified of speaking:
\* the ramp is stopped and the duty is constant at 75 percent.
C28_Witness ==
    /\ GpioQuiet
    /\ gcall.state = "speaking"
    /\ ~gpio_fade_up_
    /\ ~fade_active
    /\ hw_duty = Duty(SPEAKING_BRIGHTNESS)

\* C29: in every variant OnStateChanged with a device state outside the
\* known set only reports a warning: the call returns at once, and the
\* timer's running status and interval, the installed step, the blink
\* counter, the stored colour or duty, the pixel buffer and the output are
\* all unchanged, so the previously installed effect continues running.
C29_UnknownIsNoOp ==
    /\ [][((call' # call \/ repeat' # repeat) /\ call'.state = "unknown")
            => /\ cpc' = "idle"
               /\ UNCHANGED <<stripVars, staticVars, timerVars>>]_vars
    /\ [][(gcall' # gcall /\ gcall'.state = "unknown")
            => /\ gpc' = "idle"
               /\ UNCHANGED <<gpio_mutex_, gpio_duty_, gpio_blink_counter_,
                              gpio_blink_interval_ms_, gpio_fade_up_,
                              gpio_timer_running, gpio_timer_interval,
                              hw_duty, fade_active, fade_target, gtpc,
                              isr_pc>>]_vars
    /\ [][(scall' # scall /\ scall'.state = "unknown")
            => /\ spc' = "idle"
               /\ UNCHANGED <<single_mutex_, single_rgb_,
                              single_blink_counter_,
                              single_blink_interval_ms_,
                              single_timer_running, single_timer_interval,
                              single_hw, stpc>>]_vars

\* After a notification with an unknown state a tick of the Scroll that was
\* installed before it is executing.
C29_Witness ==
    /\ cpc = "idle"
    /\ call.via = "OnStateChanged"
    /\ call.state = "unknown"
    /\ tpc = "locked"
    /\ tick_cb.kind = "scroll"
    /\ timer_running[1]
    /\ ~fresh[1]

(***************************************************************************)
(* Claims about the brightness levels of a CircularStrip (SpecLevels).     *)
(***************************************************************************)
\* C30: SetBrightness(d, l) stores both levels and immediately re-applies
\* the effect of the current device state with the new levels: the mutator
\* it calls is the one the binding gives for d and l; in state connecting
\* every pixel equals {l, l, d} when it has returned, in state speaking
\* {l, d, l}; and every effect installed afterwards, by SetBrightness or by
\* OnStateChanged, is the binding for the levels stored last.
C30_SetBrightnessReapplies ==
    /\ [][(/\ cpc = "idle"
            /\ call'.via = "SetBrightness"
            /\ \/ call' # call
               \/ default_brightness_' # default_brightness_
               \/ low_brightness_' # low_brightness_)
           => \E b \in InBrightness :
                 /\ default_brightness_'[1] = b[1]
                 /\ low_brightness_'[1] = b[2]
                 /\ call' = [StateBinding(1, call'.state, b[1], b[2])
                               EXCEPT !.via = "SetBrightness",
                                      !.state = call'.state]]_vars
    /\ [](call.via \in {"SetBrightness", "OnStateChanged"}
            => call = [StateBinding(1, call.state, default_brightness_[1],
                                    low_brightness_[1])
                         EXCEPT !.via = call.via, !.state = call.state])
    /\ []((/\ cpc = "idle"
            /\ tpc = "idle"
            /\ call.via \in {"SetBrightness", "OnStateChanged"}
            /\ call.state \in {"connecting", "speaking"})
           => LET d == default_brightness_[1]
                  l == low_brightness_[1]
                  c == IF call.state = "connecting" THEN RGB(l, l, d)
                       ELSE RGB(l, d, l)
              IN  /\ colors_[1] = Fill(max_leds_[1], c)
                  /\ hw[1] = Fill(max_leds_[1], c)
                  /\ ~timer_running[1])

\* SetBrightness(2, 1) has returned in state speaking: every pixel is
\* {1, 2, 1} and the timer is stopped.
C30_Witness ==
    /\ cpc = "idle"
    /\ tpc = "idle"
    /\ call.via = "SetBrightness"
    /\ call.state = "speaking"
    /\ default_brightness_[1] = 2
    /\ low_brightness_[1] = 1
    /\ ~timer_running[1]
    /\ hw[1] = Fill(max_leds_[1], RGB(1, 2, 1))

(***************************************************************************)
(* Claims about one GpioLed (specification SpecGpio).                      *)
(***************************************************************************)
\* C22: SetBrightness(p) by itself never changes the duty the hardware
\* outputs: after a SetBrightness that gave duty_ a new value (other than 0
\* and full duty, which ticks and ramps write whatever duty_ is), and until
\* the next call, no blink-timer tick and no fade event makes the hardware
\* output that value.
C22_SetBrightnessDeferred ==
    [][(/\ gpc = "idle"
        /\ gpc' = "idle"
        /\ gcall.op = "SetBrightness"
        /\ gcall.changed
        /\ gcall' = gcall
        /\ gpio_duty_ \notin {0, LEDC_DUTY}
        /\ hw_duty' # hw_duty)
       => hw_duty' # gpio_duty_]_vars

\* C23: TurnOn and TurnOff stop blink and fade activity before setting the
\* duty: once TurnOn() (resp. TurnOff()) has returned and until the next
\* operation is called, whatever tick or fade-end event had already been
\* dispatched, the blink timer is stopped, no fade is in progress and the
\* hardware duty is duty_ (resp. 0).
C23_TurnOnOffIsFinal ==
    (gpc = "idle" /\ gcall.op \in {"TurnOn", "TurnOff"})
        => /\ ~gpio_timer_running
           /\ ~fade_active
           /\ hw_duty = IF gcall.op = "TurnOn" THEN gpio_duty_ ELSE 0

\* StartFadeTask has returned and no other operation has been called.
Breathing == gpc = "idle" /\ gcall.op = "StartFadeTask"

\* C24: StartFadeTask starts a ramp towards full duty; every fade-completion
\* event flips fade_up_ and schedules a new ramp towards the other end; and
\* as long as no other operation is called a fade is in progress (or its
\* completion is being handled) and the ramps towards full and towards zero
\* keep following each other.
C24_ContinuousBreathing ==
    /\ [][GpioStartFadeTaskBody
            => /\ fade_active'
               /\ gpio_fade_up_'
               /\ fade_target' = LEDC_DUTY]_vars
    /\ [][OnFadeEnd
            => /\ fade_active'
               /\ gpio_fade_up_' = ~gpio_fade_up_
               /\ fade_target' = IF fade_target = LEDC_DUTY THEN 0
                                 ELSE LEDC_DUTY]_vars
    /\ [](Breathing => (fade_active \/ isr_pc # "idle"))
    /\ (Breathing /\ fade_active /\ fade_target = LEDC_DUTY)
          ~> ((fade_active /\ fade_target = 0) \/ ~Breathing)
    /\ (Breathing /\ fade_active /\ fade_target = 0)
          ~> ((fade_active /\ fade_target = LEDC_DUTY) \/ ~Breathing)

\* The ramp to full duty has completed and the ramp to zero is in progress.
C24_Witness ==
    /\ Breathing
    /\ isr_pc = "idle"
    /\ fade_active
    /\ ~gpio_fade_up_
    /\ fade_target = 0
    /\ hw_duty = LEDC_DUTY

(***************************************************************************)
(* Claims about the timers of the three variants.                          *)
(***************************************************************************)
\* C31: a timer goes from stopped to running only in the step of
\* StartStripTask (CircularStrip) or StartBlinkTask (GpioLed, SingleLed)
\* that the caller runs under the lock; no timer callback, effect step or
\* fade handler arms it, so a timer that TurnOn, TurnOff, SetAllColor or
\* StartFadeTask stopped stays stopped until the next start call.
C31_OnlyStartArms ==
    [][/\ (~timer_running[1] /\ timer_running'[1])
            => (cpc = "StartStripTask_body" /\ cpc' = "idle")
       /\ (~gpio_timer_running /\ gpio_timer_running')
            => (gpc = "StartBlinkTask_body" /\ gpc' = "idle")
       /\ (~single_timer_running /\ single_timer_running')
            => (spc = "StartBlinkTask_body" /\ spc' = "idle")]_vars

\* TurnOff has returned and a tick that was in flight has since lit the
\* LED: the timer is still stopped.
C31_Witness ==
    /\ spc = "idle"
    /\ stpc = "idle"
    /\ scall.op = "TurnOff"
    /\ single_hw # Black
    /\ ~single_timer_running

\* C32: StartStripTask and StartBlinkTask stop the timer before they start
\* it, in one locked section: the periodic start is never refused because
\* the timer is still armed, and when the call returns the timer is armed
\* with one schedule, the one of the interval that was passed.
C32_StopThenStart ==
    [][/\ (cpc = "StartStripTask_body" /\ cpc' = "idle")
            => /\ timer_running'[call.strip]
               /\ timer_interval'[call.strip] = call.interval
       /\ (gpc = "StartBlinkTask_body" /\ gpc' = "idle")
            => /\ gpio_timer_running'
               /\ gpio_timer_interval' = gcall.interval
       /\ (spc = "StartBlinkTask_body" /\ spc' = "idle")
            => /\ single_timer_running'
               /\ single_timer_interval' = scall.interval]_vars

\* StartStripTask holds the lock of a strip whose timer is armed with
\* another period than the one it was passed.
C32_Witness ==
    /\ cpc = "StartStripTask_body"
    /\ timer_running[call.strip]
    /\ timer_interval[call.strip] # call.interval

(***************************************************************************)
(* Claims about the blink of a GpioLed or a SingleLed (specification       *)
(* SpecBlink).  The tick number of a blink is the distance of the counter  *)
(* from the value StartBlinkTask gave it.                                  *)
(***************************************************************************)
GpioBlinking == gpc = "idle" /\ gtpc = "idle" /\ gcall.op = "StartBlinkTask"
SingleBlinking == spc = "idle" /\ stpc = "idle" /\ scall.op = "StartBlinkTask"
GpioTick == gtpc = "locked" /\ gtpc' = "idle" /\ gcall.op = "StartBlinkTask"
SingleTick == stpc = "locked" /\ stpc' = "idle" /\ scall.op = "StartBlinkTask"
GpioTicks == (2 * gcall.times) - gpio_blink_counter_
SingleTicks == (2 * scall.times) - single_blink_counter_

\* C33: a blink of n >= 1 times that no other call replaces starts at
\* tick 0 with the timer armed, every tick advances it by one, the odd
\* ticks show the LED on and the even ticks off (n on phases, the first
\* tick on, the last off), and the timer is armed exactly until tick 2n.
C33_FiniteBlink ==
    /\ [](/\ (GpioBlinking /\ gcall.times >= 1)
                => /\ GpioTicks \in 0 .. (2 * gcall.times)
                   /\ gpio_timer_running <=> (GpioTicks < 2 * gcall.times)
                   /\ GpioTicks >= 1
                        => hw_duty = IF GpioTicks % 2 = 1 THEN gpio_duty_
                                     ELSE 0
          /\ (SingleBlinking /\ scall.times >= 1)
                => /\ SingleTicks \in 0 .. (2 * scall.times)
                   /\ single_timer_running
                        <=> (SingleTicks < 2 * scall.times)
                   /\ SingleTicks >= 1
                        => single_hw = IF SingleTicks % 2 = 1
                                       THEN single_rgb_ ELSE Black)
    /\ [][/\ (gpc = "StartBlinkTask_body" /\ gpc' = "idle"
                /\ gcall.times >= 1)
                => gpio_blink_counter_' = 2 * gcall.times
          /\ (GpioTick /\ gcall.times >= 1)
                => gpio_blink_counter_' = gpio_blink_counter_ - 1
          /\ (spc = "StartBlinkTask_body" /\ spc' = "idle"
                /\ scall.times >= 1)
                => single_blink_counter_' = 2 * scall.times
          /\ (SingleTick /\ scall.times >= 1)
                => single_blink_counter_' = single_blink_counter_ - 1]_vars

\* A blink of MaxBlinks times has had its last tick: the LED is off, the
\* timer is stopped.
C33_Witness ==
    /\ GpioBlinking
    /\ gcall.times = MaxBlinks
    /\ gpio_duty_ # 0
    /\ GpioTicks = 2 * MaxBlinks
    /\ hw_duty = 0
    /\ ~gpio_timer_running

\* C34: a blink of 0 times never turns the LED on and ends: once one of
\* its ticks has run the LED is off and the timer is stopped.
C34_ZeroBlinkEnds ==
    /\ (GpioBlinking /\ gcall.times = 0 /\ GpioTicks >= 1)
            => (hw_duty = 0 /\ ~gpio_timer_running)
    /\ (SingleBlinking /\ scall.times = 0 /\ SingleTicks >= 1)
            => (single_hw = Black /\ ~single_timer_running)

\* C35: a continuous blink (times = BLINK_INFINITE) that no other call
\* replaces keeps its timer armed at every tick, its first tick shows the
\* LED on, and on and off alternate from there.
C35_ContinuousBlink ==
    /\ [](/\ (GpioBlinking /\ gcall.times = BLINK_INFINITE)
                => /\ GpioTicks >= 0
                   /\ gpio_timer_running
                   /\ GpioTicks >= 1
                        => hw_duty = IF GpioTicks % 2 = 1 THEN gpio_duty_
                                     ELSE 0
          /\ (SingleBlinking /\ scall.times = BLINK_INFINITE)
                => /\ SingleTicks >= 0
                   /\ single_timer_running
                   /\ SingleTicks >= 1
                        => single_hw = IF SingleTicks % 2 = 1
                                       THEN single_rgb_ ELSE Black)
    /\ [][/\ (GpioTick /\ gcall.times = BLINK_INFINITE)
                => gpio_blink_counter_' = gpio_blink_counter_ - 1
          /\ (SingleTick /\ scall.times = BLINK_INFINITE)
                => single_blink_counter_' = single_blink_counter_ - 1]_vars

\* A continuous blink of a lit SingleLed after as many ticks as the bound
\* lets through: off after an even number of them, the timer still armed.
C35_Witness ==
    /\ SingleBlinking
    /\ scall.times = BLINK_INFINITE
    /\ single_rgb_ # Black
    /\ SingleTicks = (2 * MaxBlinks) - 2
    /\ single_hw = Black
    /\ single_timer_running

\* C36: once TurnOn of a SingleLed has returned the pixel shows r_, g_, b_,
\* and once TurnOff has returned it is off, until the next call: a tick
\* that was dispatched before the stop and waited for mutex_ changes
\* nothing.
C36_SingleTurnIsFinal ==
    /\ (spc = "idle" /\ scall.op = "TurnOn") => single_hw = single_rgb_
    /\ (spc = "idle" /\ scall.op = "TurnOff") => single_hw = Black

\* C37: SetBrightness leaves duty_ in 0 .. LEDC_DUTY whatever uint8_t value
\* it is passed.
C37_DutyInRange ==
    gcall.op = "SetBrightness" => gpio_duty_ \in 0 .. LEDC_DUTY

\* C39: the blink timer of a GpioLed is never armed while a hardware fade
\* is in progress.
C39_BlinkExcludesFade ==
    ~(gpio_timer_running /\ fade_active)

(***************************************************************************)
(* Claims about what a CircularStrip shows after another effect.           *)
(***************************************************************************)
\* C38: no FadeOut tick makes a channel of a displayed pixel brighter than
\* it was before the tick, the first tick after FadeOut was called
\* included, whatever effect ran before.
C38_FadeOutNeverBrightens ==
    [][(TimerRun /\ tick_cb.kind = "fadeout" /\ led_strip_[t_strip] = "valid")
       => \A i \in Pixels(max_leds_[t_strip]) :
            /\ hw'[t_strip][i].red <= hw[t_strip][i].red
            /\ hw'[t_strip][i].green <= hw[t_strip][i].green
            /\ hw'[t_strip][i].blue <= hw[t_strip][i].blue]_vars

\* C40: once SetSingleColor with an index inside the strip has returned,
\* every pixel of the strip shows its entry of colors_, whatever effect ran
\* before.
C40_SetSingleColorShowsBuffer ==
    (/\ cpc = "idle"
     /\ tpc = "idle"
     /\ call.op = "SetSingleColor"
     /\ call.index < max_leds_[call.strip])
        => hw[call.strip] = colors_[call.strip]

\* C7: no LED operation blocks indefinitely and no reachable state is a
\* deadlock: the fade-end handler, which waits for mutex_ on the interrupt
\* context, never waits for a mutex_ held by the very task it interrupted
\* (that task cannot run again to release it before the handler returns).
C7_NoDeadlock ==
    ~(/\ isr_pc = "wait"
      /\ isr_preempted \in {"caller", "timer"}
      /\ gpio_mutex_ = isr_preempted)

====
